---- MODULE Spec2Model ----
(***************************************************************************)
(* Model of satkit's 3D/4D ultrasound ingestion:                           *)
(*   satkit/io/ThreeD_ultrasound.py     ThreeD_Ultrasound (the volume      *)
(*                                      modality and its DICOM decode),    *)
(*                                      ThreeD_UltrasoundRecording         *)
(*   satkit/configuration/exclusion_list.py   set_exclusions_from_file     *)
(*                                                                         *)
(* Python values are modelled as follows.                                  *)
(*   None            the record NoneVal                                    *)
(*   numpy ndarray   [shape |-> tuple, at |-> function from 0-based index  *)
(*                   tuples to elements]                                   *)
(*   dict            a function whose DOMAIN is the set of keys present    *)
(*   a call          a record [exc |-> "none" or the exception raised, ...]*)
(***************************************************************************)
EXTENDS Integers, Sequences, FiniteSets, TLC

VARIABLES
    ds,        \* the parsed DICOM dataset the modality's file holds
    us,        \* the ThreeD_Ultrasound object: data, timevector, meta, scale
    lastOp,    \* the operation that ran last
    arg,       \* the argument it was called with
    outcome,   \* how it ended: "none" (it returned) or the exception raised
    ret,       \* the value it returned
    log,       \* the critical messages it logged
    didRead,   \* whether it called pydicom.dcmread
    files,     \* per basename, the extensions of the files on disk
    recs,      \* per basename, the ThreeD_UltrasoundRecording object
    dicom_dir,     \* the names of the *.DCM files in directory/DCM
    officialNotes, \* mat['officialNotes'] of the .mat file in directory/NOTES
    win,       \* the Pd3dQtAnnotator window and the recordings it was given
    lock,      \* BoundaryAnimator.lock, the class attribute
    animators  \* the BoundaryAnimator objects connected to the canvas

vars == <<ds, us, lastOp, arg, outcome, ret, log, didRead, files, recs,
          dicom_dir, officialNotes, win, lock, animators>>

volVars == <<ds, us>>
recVars == <<files, recs>>
dirVars == <<dicom_dir, officialNotes>>
guiVars == <<win, lock, animators>>

\* a critical log message, with the keys it names
Msg(text) == [msg |-> text, keys |-> {}]

NoneVal == [isNone |-> TRUE]

----------------------------------------------------------------------------
(* Bounds of the model. *)

MaxDim == 3          \* each declared inner dimension is in 1..MaxDim
MaxFrames == 3       \* the declared frame count is in 1..MaxFrames
MaxPad == 2          \* buffers are up to (frameSize + MaxPad) * frames long
MaxRegions == 4      \* a file declares 2..MaxRegions ultrasound regions
MaxLifeFrames == 2   \* frame counts of the files a modality is loaded from
MaxLifePad == 1      \* and their padding per frame
MaxFps == 2          \* frames per second is in 1..MaxFps
MaxOffset == 1       \* the modality's timeOffset is in 0..MaxOffset
MaxTrials == 2
MaxRows == 2          \* the session notes hold up to MaxRows entries
MaxPathLen == 4       \* a file path has up to MaxPathLen lexemes       \* session-notes records are numbered 1..MaxTrials

----------------------------------------------------------------------------
(* numpy *)

RECURSIVE prod(_)
prod(shape) == IF shape = <<>> THEN 1 ELSE Head(shape) * prod(Tail(shape))

RECURSIVE Indices(_)
Indices(shape) ==
    IF shape = <<>> THEN {<<>>}
    ELSE {<<i>> \o rest : i \in 0..(Head(shape) - 1), rest \in Indices(Tail(shape))}

\* C-order offset of an index tuple in an array of the given shape
RECURSIVE Ravel(_, _)
Ravel(idx, shape) ==
    IF idx = <<>> THEN 0
    ELSE Head(idx) * prod(Tail(shape)) + Ravel(Tail(idx), Tail(shape))

RECURSIVE Unravel(_, _)
Unravel(n, shape) ==
    IF shape = <<>> THEN <<>>
    ELSE <<n \div prod(Tail(shape))>> \o Unravel(n % prod(Tail(shape)), Tail(shape))

Reverse(s) == [i \in 1..Len(s) |-> s[Len(s) + 1 - i]]

size(arr) == prod(arr.shape)

\* np.frombuffer(buf, dtype=np.uint8): one element per byte
frombuffer(buf) ==
    [shape |-> <<Len(buf)>>,
     at |-> [idx \in Indices(<<Len(buf)>>) |-> buf[idx[1] + 1]]]

\* arr.shape = newshape on a C-contiguous array: the elements keep their
\* C-order offsets; numpy raises ValueError when the sizes differ
set_shape(arr, newshape) ==
    IF prod(newshape) # size(arr) \/ \E a \in 1..Len(newshape) : newshape[a] < 0
    THEN [exc |-> "ValueError", val |-> NoneVal]
    ELSE [exc |-> "none",
          val |-> [shape |-> newshape,
                   at |-> [idx \in Indices(newshape) |->
                             arr.at[Unravel(Ravel(idx, newshape), arr.shape)]]]]

\* np.arange(n)
arange(n) == [shape |-> <<n>>, at |-> [idx \in Indices(<<n>>) |-> idx[1]]]

\* numpy.matlib.repmat(a, m, n) of a 1-D array a: m x (n * len) tiling
repmat(a, m, n) ==
    [shape |-> <<m, n * a.shape[1]>>,
     at |-> [idx \in Indices(<<m, n * a.shape[1]>>) |->
               a.at[<<idx[2] % a.shape[1]>>]]]

\* np.transpose(arr) without axes: all axes reversed
transpose(arr) ==
    [shape |-> Reverse(arr.shape),
     at |-> [idx \in Indices(Reverse(arr.shape)) |-> arr.at[Reverse(idx)]]]

\* np.take_along_axis(arr, index, axis=0) of 2-D arrays:
\* out[r, f] = arr[index[r, f], f]; IndexError when an index is out of bounds
take_along_axis_clip(arr, index) ==
    [exc |-> "none",
     val |-> [shape |-> index.shape,
              at |-> [idx \in Indices(index.shape) |->
                        IF arr.shape[1] = 0 THEN 0
                        ELSE LET r == index.at[idx]
                                 c == IF r < arr.shape[1] THEN r ELSE arr.shape[1] - 1
                             IN arr.at[<<c, idx[2]>>]]]]

take_along_axis(arr, index) ==
    IF \E idx \in Indices(index.shape) :
          index.at[idx] >= arr.shape[1] \/ index.at[idx] < -arr.shape[1]
    THEN [exc |-> "IndexError", val |-> NoneVal]
    ELSE [exc |-> "none",
          val |-> [shape |-> index.shape,
                   at |-> [idx \in Indices(index.shape) |->
                             arr.at[<<index.at[idx], idx[2]>>]]]]

\* int(a / b) for integers a and b > 0: true division, then truncation
\* towards zero
int_truediv(a, b) == IF a >= 0 THEN a \div b ELSE -((-a) \div b)

\* dict[key] = value
Put(dict, key, value) ==
    [k \in DOMAIN dict \cup {key} |-> IF k = key THEN value ELSE dict[k]]

\* dict.update(other)
Update(dict, other) ==
    [k \in DOMAIN dict \cup DOMAIN other |->
        IF k \in DOMAIN other THEN other[k] ELSE dict[k]]

\* rationals, for the float arithmetic of the time vector
Rat(n, d) == [num |-> n, den |-> d]
RatDiv(q, k) == Rat(q.num, q.den * k)
RatAdd(q, k) == Rat(q.num + k * q.den, q.den)
RatEq(p, q) == p.num * q.den = q.num * p.den
RatLess(p, q) == p.num * q.den < q.num * p.den

\* np.linspace(0, stop, num=num, endpoint=False): num samples, step stop/num
linspace(stop, num) == [i \in 1..num |-> Rat((i - 1) * stop, num)]

----------------------------------------------------------------------------
(* pydicom *)

\* obj.name: the attribute when the object has it, AttributeError otherwise
GetAttr(obj, name) ==
    IF name \in DOMAIN obj
    THEN [exc |-> "none", val |-> obj[name]]
    ELSE [exc |-> "AttributeError", val |-> NoneVal]

ECHO_3D == "UDM_USD_DATATYPE_DIN_3D_ECHO"

\* a pydicom DataElement: the attributes the code reads
DataElement(v) == [tag |-> "tag", VR |-> "VR", value |-> v]

----------------------------------------------------------------------------
(* ThreeD_Ultrasound *)

\* os.path.join(path, basename + ext)
join(path, basename, ext) == [dir |-> path, name |-> basename, ext |-> ext]

DIRECTORY == "recordings"

\* the object once MatrixData.__init__ has run
MatrixData_init(timeOffset) ==
    [phase |-> "init", data |-> NoneVal, timevector |-> NoneVal,
     meta |-> <<>>, scale |-> NoneVal, timeOffset |-> timeOffset]

read_3D_ultra(m, d) ==
    LET numberOfFrames == d.numberOfFrames
        frameSize == prod(d.dims)
        shape == Append(d.dims, numberOfFrames)
        m1 == [m EXCEPT !.meta = Put(@, "FramesPerSec", d.fps),
                        !.scale = d.scale]
        interval == int_truediv(Len(d.pixels) - frameSize * shape[4], shape[4])
        data0 == frombuffer(d.pixels)
        r1 == set_shape(data0, <<frameSize + interval, numberOfFrames>>)
        index == transpose(repmat(arange(frameSize), numberOfFrames, 1))
        r2 == take_along_axis(r1.val, index)
        r3 == set_shape(r2.val, shape)
    IN  IF r1.exc # "none" THEN [m |-> m1, exc |-> r1.exc, log |-> {}]
        ELSE IF r2.exc # "none" THEN [m |-> m1, exc |-> r2.exc, log |-> {}]
        ELSE IF r3.exc # "none" THEN [m |-> m1, exc |-> r3.exc, log |-> {}]
        ELSE [m |-> [m1 EXCEPT !.data = transpose(r3.val)],
              exc |-> "none", log |-> {}]

\* lines 274-282 of _getData: the frame count, the two sizes and the time
\* vector, from the shape of the decoded buffer (self.data is read when the
\* buffer has just been set, so the getter returns it as it is)
getData_meta(m) ==
    LET no_frames == m.data.shape[1]
        meta1 == Put(Put(Put(m.meta, "no_frames", no_frames),
                         "NumVectors", m.data.shape[2]),
                     "PixPerVector", m.data.shape[3])
        ultra3D_time == linspace(no_frames, no_frames)
    IN [m EXCEPT !.meta = meta1,
                 !.timevector =
                     [i \in 1..no_frames |->
                        RatAdd(RatDiv(ultra3D_time[i], meta1["FramesPerSec"]),
                               m.timeOffset)]]

getData(m, d) ==
    IF d.regions = 3
    THEN LET type == GetAttr(d.type, "valuex") IN
         IF type.exc # "none" THEN [m |-> m, exc |-> type.exc, log |-> {}]
         ELSE IF type.val = ECHO_3D
         THEN LET r == read_3D_ultra(m, d) IN
              IF r.exc # "none" THEN r
              ELSE [m |-> getData_meta(r.m), exc |-> "none", log |-> {}]
         ELSE [m |-> m, exc |-> "SystemExit",
               log |-> {Msg("Unknown DICOM ultrasound type"), Msg("Exiting.")}]
    ELSE [m |-> m, exc |-> "SystemExit",
          log |-> {Msg("Do not know what to do with data with regions"),
                  Msg("Exiting.")}]

\* the constructor's outcome when it preloads: r is what self._getData() did
preloaded(r) ==
    [m |-> [r.m EXCEPT !.phase = IF r.exc = "none" THEN "ready" ELSE "failed"],
     exc |-> r.exc, log |-> r.log, read |-> TRUE]

\* ThreeD_Ultrasound.__init__ after super().__init__
ThreeD_Ultrasound_init(m, d, preload, filename) ==
    LET m1 == [m EXCEPT !.meta = Put(@, "filename", filename)] IN
    IF filename # NoneVal /\ preload
    THEN preloaded(getData(m1, d))
    ELSE [m |-> [m1 EXCEPT !.data = NoneVal, !.phase = "ready"],
          exc |-> "none", log |-> {}, read |-> FALSE]

\* the data setter
data_setter_assign(m, value) ==
    [m |-> [m EXCEPT !.data = value], exc |-> "none", log |-> {}]

data_setter_unless_absent(m, value) ==
    IF value # NoneVal /\ m.data # NoneVal
    THEN [m |-> m, exc |-> "NotImplementedError", log |-> {}]
    ELSE [m |-> [m EXCEPT !.data = value], exc |-> "none", log |-> {}]

data_setter(m, value) ==
    IF value # NoneVal
    THEN [m |-> m, exc |-> "NotImplementedError", log |-> {}]
    ELSE [m |-> [m EXCEPT !.data = value], exc |-> "none", log |-> {}]

\* MatrixData.data, the getter ThreeD_Ultrasound.data delegates to: the
\* buffer that is there when there is one, a decode (_getData) on access
\* otherwise
data_getter_always_decode(m, d) ==
    LET r == getData(m, d) IN
    [m |-> r.m, exc |-> r.exc, log |-> r.log, read |-> TRUE,
     val |-> IF r.exc = "none" THEN r.m.data ELSE NoneVal]

data_getter(m, d) ==
    IF m.data = NoneVal
    THEN LET r == getData(m, d) IN
         [m |-> r.m, exc |-> r.exc, log |-> r.log, read |-> TRUE,
          val |-> IF r.exc = "none" THEN r.m.data ELSE NoneVal]
    ELSE [m |-> m, exc |-> "none", log |-> {}, read |-> FALSE, val |-> m.data]

----------------------------------------------------------------------------
(* ThreeD_UltrasoundRecording *)

requiredMetaKeys == {"trial_number", "prompt", "date_and_time", "dat_file_name"}

Basenames == {"T01", "T02"}
Extensions == {"wav", "DCM", "avi"}

EmptyDict == [k \in {} |-> NoneVal]
NoFiles == [b \in Basenames |-> {}]
NoRecordings == [b \in Basenames |-> NoneVal]

\* os.path.isfile(path) on the disk fs
isfile(fs, path) == path.name \in DOMAIN fs /\ path.ext \in fs[path.name]

\* Recording.__init__: not excluded, meta holding path and basename, no
\* modalities
Recording_init(path, basename) ==
    [pc |-> "wav", basename |-> basename, excluded |-> FALSE,
     meta |-> [path |-> path, basename |-> basename],
     modalities |-> EmptyDict, requireVideo |-> FALSE]

\* Recording.exclude
exclude(rec) == [rec EXCEPT !.excluded = TRUE]

\* Recording.addModality: a name already present is an error
addModality(rec, name, modality) ==
    IF name \in DOMAIN rec.modalities
    THEN [rec |-> rec, exc |-> "DuplicateModality"]
    ELSE [rec |-> [rec EXCEPT !.modalities = Put(@, name, modality)],
          exc |-> "none"]

\* ThreeD_UltrasoundRecording.__init__, lines 426-433
check_wav(rec, fs) ==
    LET ult_wav_file == join(rec.meta["path"], rec.basename, "wav") IN
    IF isfile(fs, ult_wav_file)
    THEN [rec EXCEPT !.meta = Put(Put(@, "ult_wav_file", ult_wav_file),
                                  "ult_wav_exists", TRUE),
                     !.pc = "ult"]
    ELSE [rec EXCEPT !.meta = Put(@, "ult_wav_exists", FALSE),
                     !.excluded = TRUE, !.pc = "ult"]

\* lines 435-442
check_ult_assigns_flag(rec, fs) ==
    LET ult_file == join(rec.meta["path"], rec.basename, "DCM") IN
    IF isfile(fs, ult_file)
    THEN [rec EXCEPT !.meta = Put(Put(@, "ult_file", ult_file),
                                  "ult_exists", TRUE),
                     !.excluded = FALSE, !.pc = "video"]
    ELSE [rec EXCEPT !.meta = Put(@, "ult_exists", FALSE),
                     !.excluded = TRUE, !.pc = "video"]

check_ult(rec, fs) ==
    LET ult_file == join(rec.meta["path"], rec.basename, "DCM") IN
    IF isfile(fs, ult_file)
    THEN [rec EXCEPT !.meta = Put(Put(@, "ult_file", ult_file),
                                  "ult_exists", TRUE),
                     !.pc = "video"]
    ELSE [rec EXCEPT !.meta = Put(@, "ult_exists", FALSE),
                     !.excluded = TRUE, !.pc = "video"]

\* lines 444-452
check_video_never_excludes(rec, fs) ==
    LET video_file == join(rec.meta["path"], rec.basename, "avi") IN
    IF isfile(fs, video_file)
    THEN [rec EXCEPT !.meta = Put(Put(@, "video_file", video_file),
                                  "video_exists", TRUE),
                     !.pc = "done"]
    ELSE [rec EXCEPT !.meta = Put(@, "video_exists", FALSE),
                     !.pc = "done"]

check_video(rec, fs) ==
    LET video_file == join(rec.meta["path"], rec.basename, "avi") IN
    IF isfile(fs, video_file)
    THEN [rec EXCEPT !.meta = Put(Put(@, "video_file", video_file),
                                  "video_exists", TRUE),
                     !.pc = "done"]
    ELSE [rec EXCEPT !.meta = Put(@, "video_exists", FALSE),
                     !.excluded = IF rec.requireVideo THEN TRUE ELSE @,
                     !.pc = "done"]

\* the required key-value pairs of a dict
wanted(meta) == [key \in requiredMetaKeys |-> meta[key]]

addMeta_update_all(rec, meta) ==
    IF meta = NoneVal
    THEN [rec |-> rec, exc |-> "none", log |-> {}]
    ELSE IF requiredMetaKeys \subseteq DOMAIN meta
    THEN [rec |-> [rec EXCEPT !.meta = Update(@, meta)],
          exc |-> "none", log |-> {}]
    ELSE [rec |-> rec, exc |-> "KeyError", log |-> {}]

addMeta(rec, meta) ==
    IF meta = NoneVal
    THEN [rec |-> rec, exc |-> "none", log |-> {}]
    ELSE IF requiredMetaKeys \subseteq DOMAIN meta
    THEN [rec |-> [rec EXCEPT !.meta = Update(@, wanted(meta))],
          exc |-> "none", log |-> {}]
    ELSE \* the KeyError handler, lines 478-486
         LET notFound == requiredMetaKeys \ DOMAIN meta IN
         IF "filename" \notin DOMAIN rec.meta
         THEN [rec |-> rec, exc |-> "KeyError", log |-> {}]
         ELSE [rec |-> rec, exc |-> "SystemExit",
               log |-> {Msg("Part of metadata missing when processing"),
                        [msg |-> "Could not find", keys |-> notFound],
                        Msg("Exiting.")}]

\* LipVideo(parent, preload=False, filename, meta): nothing is read
LipVideo_init(filename, videoMeta) ==
    [phase |-> "ready", data |-> NoneVal, timevector |-> NoneVal,
     meta |-> Put(videoMeta, "filename", filename)]

\* addModalities(recording, ultPreload=preload); d is the dataset in the
\* recording's .DCM file
\* lines 194-218: ultrasound is what the ThreeD_Ultrasound constructor did
attachModalities(rec, ultrasound) ==
    LET r1 == addModality(rec, "ThreeD_Ultrasound", ultrasound.m)
    IN  IF ultrasound.exc # "none"
        THEN [rec |-> rec, exc |-> ultrasound.exc, log |-> ultrasound.log]
        ELSE IF r1.exc # "none" THEN [rec |-> rec, exc |-> r1.exc, log |-> {}]
        ELSE IF rec.meta["video_exists"]
        THEN LET video == LipVideo_init(rec.meta["video_file"],
                                        [FramesPerSec |-> Rat(5994, 100)])
                 r2 == addModality(r1.rec, "LipVideo", video)
             IN [rec |-> r2.rec, exc |-> r2.exc, log |-> {}]
        ELSE [rec |-> r1.rec, exc |-> "none", log |-> {}]

addModalities(rec, d, ultPreload) ==
    IF "ult_file" \notin DOMAIN rec.meta
    THEN [rec |-> rec, exc |-> "KeyError", log |-> {}]
    ELSE attachModalities(rec,
            ThreeD_Ultrasound_init(MatrixData_init(0), d, ultPreload,
                                   rec.meta["ult_file"]))

(* ThreeD_UltrasoundRecording.readMetaFromMat *)

\* A Python str is the sequence of its lexemes: "01-Jan-2020 10:00:00" is
\* <<"01", "-", "Jan", "-", "2020", " ", "10", ":", "00", ":", "00">> and
\* "C:\data\T01.dat" is <<"C:", "\\", "data", "\\", "T01.dat">>.

\* the lexemes %d, %b, %Y, %H, %M and %S accept, with their values
DayOf == ("01" :> 1) @@ ("31" :> 31)
MonthOf == ("Jan" :> 1) @@ ("Feb" :> 2)
YearOf == ("2020" :> 2020) @@ ("2021" :> 2021)
HourOf == ("10" :> 10) @@ ("00" :> 0)
MinuteOf == ("00" :> 0) @@ ("10" :> 10)
SecondOf == ("00" :> 0) @@ ("10" :> 10)

\* the days of a month: datetime rejects a day past the end of the month
days_in_month(year, month) ==
    IF month = 2
    THEN IF year % 4 = 0 /\ (year % 100 # 0 \/ year % 400 = 0) THEN 29 ELSE 28
    ELSE IF month \in {4, 6, 9, 11} THEN 30 ELSE 31

\* datetime.strptime(text, "%d-%b-%Y %H:%M:%S")
strptime(text) ==
    IF /\ Len(text) = 11
       /\ text[2] = "-" /\ text[4] = "-" /\ text[6] = " "
       /\ text[8] = ":" /\ text[10] = ":"
       /\ text[1] \in DOMAIN DayOf /\ text[3] \in DOMAIN MonthOf
       /\ text[5] \in DOMAIN YearOf /\ text[7] \in DOMAIN HourOf
       /\ text[9] \in DOMAIN MinuteOf /\ text[11] \in DOMAIN SecondOf
       /\ DayOf[text[1]] <= days_in_month(YearOf[text[5]], MonthOf[text[3]])
    THEN [exc |-> "none",
          val |-> [year |-> YearOf[text[5]], month |-> MonthOf[text[3]],
                   day |-> DayOf[text[1]], hour |-> HourOf[text[7]],
                   minute |-> MinuteOf[text[9]], second |-> SecondOf[text[11]]]]
    ELSE [exc |-> "ValueError", val |-> NoneVal]

\* the order of datetime objects
datetime_key(t) ==
    <<t.year, t.month, t.day, t.hour, t.minute, t.second>>

RECURSIVE tuple_less(_, _)
tuple_less(a, b) ==
    IF a = <<>> \/ b = <<>> THEN a = <<>> /\ b # <<>>
    ELSE IF Head(a) # Head(b) THEN Head(a) < Head(b)
    ELSE tuple_less(Tail(a), Tail(b))

datetime_less(t, u) == tuple_less(datetime_key(t), datetime_key(u))

Separators == {"\\", "/"}
Drives == {"C:"}

\* the positions of the separators of a path that PurePosixPath would split
\* at, and those PureWindowsPath splits at
posix_separators(text) == {i \in 1..Len(text) : text[i] = "/"}
windows_separators(text) == {i \in 1..Len(text) : text[i] \in Separators}

Max(S) == CHOOSE x \in S : \A y \in S : y <= x

\* the final component of text[first..], split at the positions seps;
\* trailing separators are ignored
final_component(text, first, seps) ==
    LET names == {i \in first..Len(text) : i \notin seps} IN
    IF names = {} THEN <<>>
    ELSE LET last == Max(names)
             before == {i \in seps : i < last /\ i >= first}
             start == IF before = {} THEN first ELSE Max(before) + 1
         IN SubSeq(text, start, last)

\* PurePosixPath(text).name
PurePosixPath_name(text) == final_component(text, 1, posix_separators(text))

\* line 401, PureWindowsPath(text).name: both separators split, a leading drive is
\* not part of the name
PureWindowsPath_name(text) ==
    LET first == IF text # <<>> /\ text[1] \in Drives THEN 2 ELSE 1 IN
    final_component(text, first, windows_separators(text))

\* lines 388-395; element[4] and element[5] of the code are element[5] and
\* element[6] here. Without the fallback:
date_and_file_first_only(element) ==
    LET first == strptime(element[5]) IN
    [exc |-> first.exc, date_and_time |-> first.val, file_path |-> element[6]]

date_and_file(element) ==
    LET first == strptime(element[5])
        second == strptime(element[6])
    IN  IF first.exc = "none"
        THEN [exc |-> "none", date_and_time |-> first.val,
              file_path |-> element[6]]
        ELSE [exc |-> second.exc, date_and_time |-> second.val,
              file_path |-> element[5]]

\* line 384
is_trial_row_gt6(element) == Len(element) > 6

is_trial_row(element) == Len(element) > 5

\* lines 397-402: the dict of one element, r what lines 388-395 did
meta_token(element, r) ==
    [trial_number |-> element[1],
     prompt |-> element[2],
     date_and_time |-> r.date_and_time,
     dat_file_name |-> PureWindowsPath_name(r.file_path)]

\* the loop of lines 378-403 from element i on, meta the list so far
RECURSIVE readMetaFrom(_, _, _)
readMetaFrom(notes, i, meta) ==
    IF i > Len(notes) THEN [exc |-> "none", val |-> meta]
    ELSE IF ~is_trial_row(notes[i]) THEN readMetaFrom(notes, i + 1, meta)
    ELSE IF date_and_file(notes[i]).exc # "none"
    THEN [exc |-> date_and_file(notes[i]).exc, val |-> NoneVal]
    ELSE readMetaFrom(notes, i + 1,
            Append(meta, meta_token(notes[i], date_and_file(notes[i]))))

\* readMetaFromMat(mat_file), notes being mat['officialNotes']
readMetaFromMat(notes) == readMetaFrom(notes, 1, <<>>)

(* exclusion_list.set_exclusions_from_file *)

\* [row[0] for row in reader if row], as a set: the list is only searched
exclusion_list(rows) == {rows[i][1] : i \in {j \in 1..Len(rows) : rows[j] # <<>>}}

\* file is None (no filename) or the rows csv.reader yields
set_exclusions_from_file_assign(file, recordings) ==
    LET list == IF file # NoneVal THEN exclusion_list(file.rows) ELSE {} IN
    [b \in DOMAIN recordings |->
        IF recordings[b] # NoneVal
        THEN [recordings[b] EXCEPT !.excluded = recordings[b].basename \in list]
        ELSE recordings[b]]

set_exclusions_from_file(file, recordings) ==
    LET list == IF file # NoneVal THEN exclusion_list(file.rows) ELSE {} IN
    [b \in DOMAIN recordings |->
        IF recordings[b] # NoneVal /\ recordings[b].basename \in list
        THEN exclude(recordings[b])
        ELSE recordings[b]]

----------------------------------------------------------------------------
(* The files: parsed DICOM datasets. *)

\* the raw sample buffer: the byte at offset i holds i (mod 256), so that a
\* decoded element names the offset it was taken from
Pixels(len) == [i \in 1..len |-> (i - 1) % 256]

Dataset(regions, type, numberOfFrames, dims, fps, len) ==
    [regions |-> regions, type |-> DataElement(type),
     numberOfFrames |-> numberOfFrames, dims |-> dims,
     scale |-> <<1, 1, 1>>, fps |-> fps, pixels |-> Pixels(len)]

Dims == {<<a, b, c>> : a \in 1..MaxDim, b \in 1..MaxDim, c \in 1..MaxDim}

\* every buffer for the declared dimensions and frame count, from empty to
\* MaxPad bytes of padding per frame
DecodeInputs ==
    {Dataset(3, ECHO_3D, nf, dims, 1, len) :
        nf \in 1..MaxFrames, dims \in Dims,
        len \in 0..((MaxDim * MaxDim * MaxDim + MaxPad) * MaxFrames)}

WellFormed(d) ==
    /\ d.regions = 3
    /\ d.type.value = ECHO_3D
    /\ Len(d.pixels) >= prod(d.dims) * d.numberOfFrames
    /\ (Len(d.pixels) - prod(d.dims) * d.numberOfFrames) % d.numberOfFrames = 0

padding_per_frame(d) ==
    (Len(d.pixels) - prod(d.dims) * d.numberOfFrames) \div d.numberOfFrames


----------------------------------------------------------------------------
(* The operations of a ThreeD_Ultrasound, each one call. *)

Returned(op, a, r, value, read) ==
    /\ us' = r.m
    /\ lastOp' = op
    /\ arg' = a
    /\ outcome' = r.exc
    /\ ret' = value
    /\ log' = r.log
    /\ didRead' = read
    /\ UNCHANGED <<ds, recVars, dirVars, guiVars>>

Construct ==
    /\ us.phase = "init"
    /\ \E preload \in BOOLEAN :
          LET r == ThreeD_Ultrasound_init(us, ds, preload, join(DIRECTORY, "T01", "DCM"))
          IN Returned(IF preload THEN "__init__(preload)" ELSE "__init__",
                      NoneVal, r, NoneVal, r.read)

Call_getData ==
    /\ us.phase = "ready"
    /\ Returned("_getData", NoneVal, getData(us, ds), NoneVal, TRUE)

Call_read_3D_ultra ==
    /\ us.phase = "ready"
    /\ Returned("_read_3D_ultra", NoneVal, read_3D_ultra(us, ds), NoneVal, FALSE)

GetDataProperty ==
    /\ us.phase = "ready"
    /\ LET r == data_getter(us, ds) IN Returned("data", NoneVal, r, r.val, r.read)

\* an array a caller might assign
OtherArray == arange(1)

SetData ==
    /\ us.phase = "ready"
    /\ \E value \in {NoneVal, OtherArray} :
          LET r == data_setter(us, value)
          IN Returned("data = value", value, r, NoneVal, FALSE)

Ready(m) == ThreeD_Ultrasound_init(m, NoneVal, FALSE, join(DIRECTORY, "T01", "DCM")).m

\* _read_3D_ultra as a function of the dataset: a constructed, unloaded
\* modality and every input buffer
InitDecode ==
    /\ ds \in DecodeInputs
    /\ us = Ready(MatrixData_init(0))
    /\ lastOp = "none" /\ arg = NoneVal /\ outcome = "none"
    /\ ret = NoneVal /\ log = {} /\ didRead = FALSE
    /\ dicom_dir = {} /\ officialNotes = <<>>
    /\ win = NoneVal /\ lock = NoneVal /\ animators = <<>>
    /\ files = NoFiles /\ recs = NoRecordings

NextDecode == Call_read_3D_ultra

SpecDecode == InitDecode /\ [][NextDecode]_vars

----------------------------------------------------------------------------
(* The volume decode, _read_3D_ultra. *)

frame_size == prod(ds.dims)
frame_count == ds.numberOfFrames
Decoded == lastOp = "_read_3D_ultra"

\* the elements of an array, as a set
Elements(arr) == {arr.at[idx] : idx \in DOMAIN arr.at}

\* in a buffer of consecutive frames, each frame_size data bytes followed by
\* its padding, the offsets that hold padding
IsPadding(offset) == offset % (frame_size + padding_per_frame(ds)) >= frame_size

\* C1 (as claimed): decoding a well-formed input yields a tensor of shape
\* [frame_count, dim1, dim2, dim3], the inner dimensions in declared order.
C1_ShapeInDeclaredOrder ==
    (Decoded /\ WellFormed(ds)) =>
        /\ outcome = "none"
        /\ us.data # NoneVal
        /\ us.data.shape = <<frame_count>> \o ds.dims

\* C2 (as claimed): for a buffer of frame_count consecutive frames, each
\* frame_size data bytes followed by p >= 0 padding bytes, no padding byte
\* is in the decoded tensor and every data byte is.
C2_PaddingStripped ==
    (Decoded /\ WellFormed(ds)) =>
        /\ outcome = "none"
        /\ us.data # NoneVal
        /\ \A offset \in 0..(Len(ds.pixels) - 1) :
              (ds.pixels[offset + 1] \in Elements(us.data)) <=> ~IsPadding(offset)

\* the exceptions numpy raises on a buffer that does not fit the declared
\* frames: the decode's CorruptVolume failures
CorruptVolume == {"ValueError", "IndexError"}

TooShort == Len(ds.pixels) < frame_size * frame_count
Fractional ==
    /\ Len(ds.pixels) >= frame_size * frame_count
    /\ (Len(ds.pixels) - frame_size * frame_count) % frame_count # 0

\* C3: when the buffer is shorter than frame_size * frame_count, or the
\* remainder is no multiple of frame_count, the decode raises and stores
\* no tensor.
C3_CorruptVolumeFails ==
    (Decoded /\ (TooShort \/ Fractional)) =>
        /\ outcome \in CorruptVolume
        /\ us.data = NoneVal

\* a buffer short by a whole number of rows, where the 2-D view succeeds and
\* only the row gather is out of bounds
C3_Witness ==
    /\ Decoded /\ TooShort /\ Len(ds.pixels) > 0
    /\ (frame_size * frame_count - Len(ds.pixels)) % frame_count = 0
    /\ outcome = "IndexError"
    /\ us.data = NoneVal

----------------------------------------------------------------------------
(* The life of one ThreeD_Ultrasound: construction, loads, releases. *)

OTHER_TYPE == "UDM_USD_DATATYPE_DIN_2D_ECHO"

\* the files a modality is loaded from: any number of regions, either
\* sub-type, well-formed buffers and buffers one row short
LifeInputs ==
    {Dataset(regions, type, nf, dims, fps, (prod(dims) + pad) * nf) :
        regions \in 2..MaxRegions, type \in {ECHO_3D, OTHER_TYPE},
        nf \in 1..MaxLifeFrames, dims \in {<<1, 1, 1>>, <<1, 2, 3>>},
        fps \in 1..MaxFps, pad \in (-1)..MaxLifePad}

Init ==
    /\ ds \in LifeInputs
    /\ \E timeOffset \in 0..MaxOffset : us = MatrixData_init(timeOffset)
    /\ lastOp = "none" /\ arg = NoneVal /\ outcome = "none"
    /\ ret = NoneVal /\ log = {} /\ didRead = FALSE
    /\ dicom_dir = {} /\ officialNotes = <<>>
    /\ win = NoneVal /\ lock = NoneVal /\ animators = <<>>
    /\ files = NoFiles /\ recs = NoRecordings

Next ==
    \/ Construct
    \/ Call_getData
    \/ Call_read_3D_ultra
    \/ GetDataProperty
    \/ SetData

Spec == Init /\ [][Next]_vars

Populated == us.data # NoneVal

C5_FailFastOrRead ==
    [][(lastOp' = "_getData") =>
          /\ ds.regions # 3 =>
                /\ outcome' = "SystemExit"
                /\ Msg("Do not know what to do with data with regions") \in log'
                /\ us' = us
          /\ (ds.regions = 3 /\ ds.type.value # ECHO_3D) =>
                /\ outcome' = "SystemExit"
                /\ Msg("Unknown DICOM ultrasound type") \in log'
                /\ us' = us
          /\ (ds.regions = 3 /\ ds.type.value = ECHO_3D) =>
                "FramesPerSec" \in DOMAIN us'.meta]_vars

\* C6: reading data when it is populated decodes nothing, changes nothing
\* of the modality and returns the buffer that is there.
C6_LoadIdempotent ==
    [][(lastOp' = "data" /\ Populated) =>
          /\ us' = us
          /\ ret' = us.data
          /\ outcome' = "none"
          /\ ~didRead']_vars

C6_Witness ==
    /\ lastOp = "data" /\ Populated /\ ret = us.data
    /\ ~didRead /\ outcome = "none"

\* C7: assigning an array to data when it is populated raises and leaves
\* the stored buffer as it was.
C7_OverwriteRejected ==
    [][(lastOp' = "data = value" /\ arg' # NoneVal /\ Populated) =>
          /\ outcome' = "NotImplementedError"
          /\ us'.data = us.data]_vars

C7_Witness ==
    /\ lastOp = "data = value" /\ arg = OtherArray /\ Populated
    /\ outcome = "NotImplementedError"
    /\ us.data # OtherArray

\* C8 (as claimed): assigning None to data succeeds in every state and
\* leaves data absent, and the load that follows a release of a well-formed
\* file decodes it again and repopulates data.
C8_ReleaseThenReload ==
    [][/\ (lastOp' = "data = value" /\ arg' = NoneVal) =>
             (outcome' = "none" /\ us'.data = NoneVal)
       /\ (lastOp = "data = value" /\ arg = NoneVal /\ lastOp' = "data"
             /\ WellFormed(ds)) =>
             (didRead' /\ outcome' = "none" /\ us'.data # NoneVal)]_vars

----------------------------------------------------------------------------
(* Recordings: construction, metadata merges, modality attaches and
   exclusion lists. One call runs at a time: a constructor finishes its
   three file checks before anything else is called. *)

\* a session-notes record: the given keys, with the values of trial v
MetaRecord(keys, v) == [k \in keys |-> <<k, v>>]

MetaKeys == requiredMetaKeys \cup {"participant"}

\* None, complete records (with and without an extra key), and records
\* lacking required keys
MetaInputs ==
    {NoneVal}
    \cup {MetaRecord(keys, v) : keys \in SUBSET MetaKeys, v \in 1..MaxTrials}

\* the exclusion files: none, and files of rows (basename, comment), with
\* blank rows and unknown basenames
ExclusionFiles ==
    {NoneVal,
     [rows |-> <<>>],
     [rows |-> << <<"T01", "noisy">> >>],
     [rows |-> << <<"T02">>, <<>>, <<"T99", "no such recording">> >>],
     [rows |-> << <<"T01">>, <<"T02", "cough">> >>]}

\* the dataset in every recording's .DCM file
RecordingDataset == Dataset(3, ECHO_3D, 1, <<1, 1, 1>>, 1, 1)

Idle == \A b \in Basenames : IF recs[b] = NoneVal THEN TRUE ELSE recs[b].pc = "done"

RecReturned(op, a, newrecs, exc, lg, read) ==
    /\ recs' = newrecs
    /\ lastOp' = op
    /\ arg' = a
    /\ outcome' = exc
    /\ log' = lg
    /\ ret' = NoneVal
    /\ didRead' = read
    /\ UNCHANGED <<ds, us, files, dirVars, guiVars>>

\* ThreeD_UltrasoundRecording.__init__ up to the file checks
NewRecording ==
    /\ Idle
    /\ \E b \in Basenames, requireVideo \in BOOLEAN :
          /\ recs[b] = NoneVal
          /\ RecReturned("__init__", [rec |-> b],
                [recs EXCEPT ![b] = [Recording_init(DIRECTORY, b)
                                        EXCEPT !.requireVideo = requireVideo]],
                "none", {}, FALSE)

Constructing(b, pc) == IF recs[b] = NoneVal THEN FALSE ELSE recs[b].pc = pc

CheckWav ==
    \E b \in Basenames :
        /\ Constructing(b, "wav")
        /\ RecReturned("__init__", [rec |-> b],
              [recs EXCEPT ![b] = check_wav(@, files)], "none", {}, FALSE)

CheckUlt ==
    \E b \in Basenames :
        /\ Constructing(b, "ult")
        /\ RecReturned("__init__", [rec |-> b],
              [recs EXCEPT ![b] = check_ult(@, files)], "none", {}, FALSE)

CheckVideo ==
    \E b \in Basenames :
        /\ Constructing(b, "video")
        /\ RecReturned("__init__", [rec |-> b],
              [recs EXCEPT ![b] = check_video(@, files)], "none", {}, FALSE)

\* a call on the recording b that did r
RecCalled(op, a, b, r, read) ==
    RecReturned(op, a, [recs EXCEPT ![b] = r.rec], r.exc, r.log, read)

\* recording.addMeta(meta), for the records of `inputs`
AddMetaOf(inputs) ==
    /\ Idle
    /\ \E b \in Basenames, meta \in inputs :
          /\ recs[b] # NoneVal
          /\ RecCalled("addMeta", [rec |-> b, meta |-> meta], b,
                       addMeta(recs[b], meta), FALSE)

\* None, a complete record with an extra key, a record lacking one key
FewMetaInputs ==
    {NoneVal, MetaRecord(MetaKeys, 1),
     MetaRecord(requiredMetaKeys \ {"prompt"}, 1)}

AddMeta == AddMetaOf(FewMetaInputs)

AddAnyMeta == AddMetaOf(MetaInputs)

AddModalities ==
    /\ Idle
    /\ \E b \in Basenames, ultPreload \in BOOLEAN :
          /\ recs[b] # NoneVal
          /\ RecCalled("addModalities", [rec |-> b, ultPreload |-> ultPreload],
                       b, addModalities(recs[b], ds, ultPreload),
                       ultPreload /\ "ult_file" \in DOMAIN recs[b].meta)

SetExclusions ==
    /\ Idle
    /\ \E file \in ExclusionFiles :
          RecReturned("set_exclusions_from_file", [file |-> file],
             set_exclusions_from_file(file, recs), "none", {}, FALSE)

\* the disks: any files for T01; T02 complete or lacking its audio
RecordingDisks ==
    {fs \in [Basenames -> SUBSET Extensions] :
        fs["T02"] \in {Extensions, {"DCM", "avi"}}}

InitRecording ==
    /\ files \in RecordingDisks
    /\ recs = NoRecordings
    /\ ds = RecordingDataset
    /\ us = MatrixData_init(0)
    /\ lastOp = "none" /\ arg = NoneVal /\ outcome = "none"
    /\ ret = NoneVal /\ log = {} /\ didRead = FALSE
    /\ dicom_dir = {} /\ officialNotes = <<>>
    /\ win = NoneVal /\ lock = NoneVal /\ animators = <<>>

NextRecording ==
    \/ NewRecording
    \/ CheckWav
    \/ CheckUlt
    \/ CheckVideo
    \/ AddMeta
    \/ AddModalities
    \/ SetExclusions

SpecRecording == InitRecording /\ [][NextRecording]_vars

\* ThreeD_UltrasoundRecording(path, basename, requireVideo) on the disk fs
Constructed(basename, requireVideo, fs) ==
    check_video(
        check_ult(
            check_wav([Recording_init(DIRECTORY, basename)
                          EXCEPT !.requireVideo = requireVideo], fs), fs), fs)

\* addMeta as a function of the record: one constructed recording and
\* every record of MetaInputs
InitMeta ==
    /\ \E present \in SUBSET Extensions :
          files = [b \in Basenames |-> IF b = "T01" THEN present ELSE {}]
    /\ \E requireVideo \in BOOLEAN :
          recs = [b \in Basenames |->
                    IF b = "T01" THEN Constructed(b, requireVideo, files)
                    ELSE NoneVal]
    /\ ds = RecordingDataset
    /\ us = MatrixData_init(0)
    /\ lastOp = "none" /\ arg = NoneVal /\ outcome = "none"
    /\ ret = NoneVal /\ log = {} /\ didRead = FALSE
    /\ dicom_dir = {} /\ officialNotes = <<>>
    /\ win = NoneVal /\ lock = NoneVal /\ animators = <<>>

NextMeta == AddAnyMeta

SpecMeta == InitMeta /\ [][NextMeta]_vars

Excluded(recordings, b) ==
    IF recordings[b] = NoneVal THEN FALSE ELSE recordings[b].excluded

\* C9: a recording that is excluded is still excluded after every step:
\* the later file checks of its constructor, addMeta, addModalities and
\* set_exclusions_from_file.
C9_ExclusionMonotonic ==
    [][\A b \in Basenames : Excluded(recs, b) => Excluded(recs', b)]_vars

\* an excluded recording (its .wav is missing) that has had metadata merged
\* and its volume attached, after an exclusion list that does not name it
C9_Witness ==
    \E b \in Basenames :
        /\ Excluded(recs, b)
        /\ recs[b].pc = "done"
        /\ "wav" \notin files[b]
        /\ requiredMetaKeys \subseteq DOMAIN recs[b].meta
        /\ "ThreeD_Ultrasound" \in DOMAIN recs[b].modalities
        /\ lastOp = "set_exclusions_from_file"
        /\ arg.file = [rows |-> <<>>]

MergedIncomplete(op, a) ==
    IF op = "addMeta"
    THEN IF a.meta = NoneVal THEN FALSE
         ELSE ~(requiredMetaKeys \subseteq DOMAIN a.meta)
    ELSE FALSE

\* C10 (as claimed): merging a record that lacks a required key ends in the
\* fatal exit, after reporting which keys are missing, and the recording's
\* metadata is as it was.
C10_IncompleteMetadataReported ==
    [][MergedIncomplete(lastOp', arg') =>
          /\ outcome' = "SystemExit"
          /\ [msg |-> "Could not find",
              keys |-> requiredMetaKeys \ DOMAIN arg'.meta] \in log'
          /\ recs'[arg'.rec].meta = recs[arg'.rec].meta]_vars

MergedComplete(op, a) ==
    IF op = "addMeta"
    THEN IF a.meta = NoneVal THEN FALSE
         ELSE requiredMetaKeys \subseteq DOMAIN a.meta
    ELSE FALSE

\* C11: merging a record that has all four required keys sets exactly those
\* keys to the record's values: the record's other keys are discarded and
\* the recording's other keys keep their values.
C11_MergeSetsRequiredKeysOnly ==
    [][MergedComplete(lastOp', arg') =>
          LET old == recs[arg'.rec].meta
              new == recs'[arg'.rec].meta
          IN /\ outcome' = "none"
             /\ DOMAIN new = DOMAIN old \cup requiredMetaKeys
             /\ \A k \in requiredMetaKeys : new[k] = arg'.meta[k]
             /\ \A k \in DOMAIN old \ requiredMetaKeys : new[k] = old[k]]_vars

\* a record with an extra key was merged into a recording that holds file
\* paths and existence flags
C11_Witness ==
    /\ MergedComplete(lastOp, arg)
    /\ outcome = "none"
    /\ "participant" \in DOMAIN arg.meta
    /\ "participant" \notin DOMAIN recs[arg.rec].meta
    /\ {"ult_file", "ult_exists", "video_exists"} \subseteq DOMAIN recs[arg.rec].meta
    /\ recs[arg.rec].meta["prompt"] = <<"prompt", MaxTrials>>

----------------------------------------------------------------------------
(* The session notes: readMetaFromMat as a function of officialNotes. *)

\* day-month-year 10:00:00
Stamp(d, m, y) == <<d, "-", m, "-", y, " ", "10", ":", "00", ":", "00">>

\* 31-Feb among them, which no calendar has
Stamps ==
    {Stamp(d, m, y) : d \in DOMAIN DayOf, m \in DOMAIN MonthOf, y \in DOMAIN YearOf}

\* a date in another format
IsoStamp == <<"2020", "-", "01", "-", "01", " ", "10", ":", "00", ":", "00">>

PathLexemes == Drives \cup Separators \cup {"data", "T01.dat"}

\* the file paths: an optional drive, then names and separators (no UNC
\* share, which starts with two separators)
PathTexts ==
    UNION {{p \in [1..n -> PathLexemes] :
               /\ \A i \in 2..n : p[i] \notin Drives
               /\ ~(n >= 2 /\ p[1] \in Separators /\ p[2] \in Separators)} :
           n \in 0..MaxPathLen}

FileTexts ==
    {<<"T01.dat">>, <<"C:", "\\", "data", "\\", "T01.dat">>,
     <<"data", "/", "T01.dat">>}

\* the entry of trial n with the given fields 5 and 6, cut to len fields
Element(n, f5, f6, len) ==
    SubSeq(<<n, "prompt", "x", "x", f5, f6, "x">>, 1, len)

FewTexts == {Stamp("01", "Jan", "2020"), Stamp("31", "Jan", "2021"),
             Stamp("31", "Feb", "2020"), <<"T01.dat">>}

\* the entries trial n can be: a header, five fields, six fields with
\* every pair of texts, seven fields in both orders
Elements_of(n) ==
    {Element(n, <<>>, <<>>, 2)}
    \cup {Element(n, f5, <<>>, 5) : f5 \in FewTexts}
    \cup {Element(n, f5, f6, 6) : f5 \in FewTexts, f6 \in FewTexts}
    \cup {Element(n, Stamp("01", "Jan", "2020"), <<"T01.dat">>, 7),
          Element(n, <<"T01.dat">>, Stamp("01", "Jan", "2020"), 7)}

\* notes of up to MaxRows entries, numbered in order; and single entries
\* with any two texts, or a date and any path in either order
NotesInputs ==
    UNION {{notes \in [1..n -> UNION {Elements_of(i) : i \in 1..n}] :
               \A i \in 1..n : notes[i][1] = i} : n \in 0..MaxRows}
    \cup {<<Element(1, f5, f6, 6)>> :
             f5 \in Stamps \cup {IsoStamp} \cup FileTexts,
             f6 \in Stamps \cup {IsoStamp} \cup FileTexts}
    \cup {<<Element(1, Stamp("01", "Jan", "2020"), p, 6)>> : p \in PathTexts}
    \cup {<<Element(1, p, Stamp("01", "Jan", "2020"), 6)>> : p \in PathTexts}

ReadMetaFromMat ==
    /\ lastOp = "none"
    /\ LET r == readMetaFromMat(officialNotes) IN
       /\ lastOp' = "readMetaFromMat"
       /\ arg' = NoneVal
       /\ outcome' = r.exc
       /\ ret' = r.val
       /\ log' = {}
       /\ didRead' = FALSE
       /\ UNCHANGED <<volVars, recVars, dirVars, guiVars>>

InitNotes ==
    /\ officialNotes \in NotesInputs
    /\ dicom_dir = {}
    /\ win = NoneVal /\ lock = NoneVal /\ animators = <<>>
    /\ files = NoFiles /\ recs = NoRecordings
    /\ ds = RecordingDataset
    /\ us = MatrixData_init(0)
    /\ lastOp = "none" /\ arg = NoneVal /\ outcome = "none"
    /\ ret = NoneVal /\ log = {} /\ didRead = FALSE

NextNotes == ReadMetaFromMat

SpecNotes == InitNotes /\ [][NextNotes]_vars

Parsed == lastOp = "readMetaFromMat"

ValidStamp(text) == strptime(text).exc = "none"

HasSixFields(element) == Len(element) >= 6

\* the entries with 6 or more fields, in order
TrialEntries(notes) == SelectSeq(notes, HasSixFields)

\* the records are those of the entries, one each and in their order
OneRecordPerEntry(records, entries) ==
    /\ Len(records) = Len(entries)
    /\ \A j \in 1..Len(entries) :
          /\ records[j]["trial_number"] = entries[j][1]
          /\ records[j]["prompt"] = entries[j][2]

\* C16 (as claimed): the parse skips every entry with fewer than 6 fields
\* and produces exactly one record for every entry with 6 or more fields,
\* in the order of the entries.
C16_OneRecordPerEntry ==
    Parsed =>
        /\ outcome = "none"
        /\ OneRecordPerEntry(ret, TrialEntries(officialNotes))

Dated(element) == ValidStamp(element[5]) \/ ValidStamp(element[6])

\* C16 (amended): when every entry with 6 or more fields has a valid
\* timestamp in field 5 or 6, the parse skips the entries with fewer than 6
\* fields and produces exactly one record for every entry with 6 or more,
\* in order; otherwise it ends in ValueError and produces no record.
C16_OneRecordPerDatedEntry ==
    Parsed =>
        LET entries == TrialEntries(officialNotes) IN
        IF \A j \in 1..Len(entries) : Dated(entries[j])
        THEN outcome = "none" /\ OneRecordPerEntry(ret, entries)
        ELSE outcome = "ValueError" /\ ret = NoneVal

\* a five-field entry was skipped and the six-field entry after it parsed
C16_Witness ==
    /\ Parsed
    /\ outcome = "none"
    /\ Len(officialNotes) = 2
    /\ Len(officialNotes[1]) = 5
    /\ Len(officialNotes[2]) = 6
    /\ Len(ret) = 1
    /\ ret[1]["trial_number"] = 2

\* an entry with fields 5 and 6 swapped
Swapped(element) ==
    IF HasSixFields(element)
    THEN [element EXCEPT ![5] = element[6], ![6] = element[5]]
    ELSE element

SwappedNotes(notes) == [i \in 1..Len(notes) |-> Swapped(notes[i])]

\* fields 5 and 6 are a timestamp and a text that is no timestamp
StampAndFile(element) == ValidStamp(element[5]) # ValidStamp(element[6])

\* C17: when fields 5 and 6 of every entry are a valid timestamp and a
\* filename that is no timestamp, in either order, the notes and the notes
\* with fields 5 and 6 swapped parse to the same records.
C17_FieldOrderFallback ==
    (Parsed /\ \A j \in 1..Len(TrialEntries(officialNotes)) :
                   StampAndFile(TrialEntries(officialNotes)[j])) =>
        /\ outcome = "none"
        /\ readMetaFromMat(SwappedNotes(officialNotes)) =
               [exc |-> "none", val |-> ret]

\* an entry with the filename in field 5 and the timestamp in field 6 parsed
C17_Witness ==
    /\ Parsed
    /\ outcome = "none"
    /\ Len(officialNotes) = 1
    /\ HasSixFields(officialNotes[1])
    /\ officialNotes[1][5] = <<"C:", "\\", "data", "\\", "T01.dat">>
    /\ ValidStamp(officialNotes[1][6])
    /\ ret[1]["date_and_time"] = strptime(officialNotes[1][6]).val
    /\ ret[1]["dat_file_name"] = <<"T01.dat">>

\* C18 (as claimed): an entry is accepted only if exactly one of fields 5
\* and 6 is a valid timestamp; notes with an entry where neither is, or
\* where both are, are rejected with an error and produce no record.
C18_ExactlyOneOrdering ==
    (Parsed /\ \E j \in 1..Len(TrialEntries(officialNotes)) :
                   ~StampAndFile(TrialEntries(officialNotes)[j])) =>
        /\ outcome # "none"
        /\ ret = NoneVal

\* the text of an entry that is its file path
FilePath(element) ==
    IF ValidStamp(element[5]) THEN element[6] ELSE element[5]

Bare(text) == \A i \in 1..Len(text) : text[i] \notin Separators \cup Drives

\* name is what follows the last separator, or the drive, of the path
\* without its trailing separators; empty when the path has nothing else
IsFinalComponent(name, path) ==
    \E a \in 0..Len(path), b \in 0..Len(path) :
        /\ a <= b
        /\ name = SubSeq(path, a + 1, b)
        /\ \A i \in (b + 1)..Len(path) : path[i] \in Separators
        /\ a = 0 \/ path[a] \in Separators \cup Drives
        /\ name = <<>> => Bare(path) = (path = <<>>)

\* C19: the filename of every record is the bare final component of the
\* entry's file path: it has no separator and no drive, and a path that is
\* a bare filename is stored as it is.
C19_BareFileName ==
    (Parsed /\ outcome = "none") =>
        \A j \in 1..Len(ret) :
            LET name == ret[j]["dat_file_name"]
                path == FilePath(TrialEntries(officialNotes)[j])
            IN /\ Bare(name)
               /\ IsFinalComponent(name, path)
               /\ Bare(path) => name = path

\* a path with a drive and backslashes was reduced to its file name
C19_Witness ==
    /\ Parsed
    /\ outcome = "none"
    /\ Len(officialNotes) = 1
    /\ HasSixFields(officialNotes[1])
    /\ officialNotes[1][6] = <<"C:", "data", "\\", "T01.dat">>
    /\ ret[1]["dat_file_name"] = <<"T01.dat">>

\* the basename is the first column of some row of the file
Named(file, basename) ==
    IF file = NoneVal THEN FALSE
    ELSE \E i \in 1..Len(file.rows) :
            Len(file.rows[i]) >= 1 /\ file.rows[i][1] = basename

\* C20: applying an exclusion list excludes every recording whose basename
\* is the first column of some row and changes the flag of no other
\* recording; with no file the call succeeds and changes no recording.
C20_ExclusionListApplied ==
    [][lastOp' = "set_exclusions_from_file" =>
          /\ outcome' = "none"
          /\ \A b \in Basenames :
                recs[b] # NoneVal =>
                    /\ recs'[b] # NoneVal
                    /\ recs'[b].excluded =
                          (Named(arg'.file, b) \/ recs[b].excluded)
          /\ arg'.file = NoneVal => recs' = recs]_vars

\* a list with a blank row and an unknown name excluded T02, which has all
\* its files, and left T01 included
C20_Witness ==
    /\ lastOp = "set_exclusions_from_file"
    /\ arg.file = [rows |-> << <<"T02">>, <<>>, <<"T99", "no such recording">> >>]
    /\ files["T02"] = Extensions
    /\ Excluded(recs, "T02")
    /\ recs["T01"] # NoneVal
    /\ ~Excluded(recs, "T01")

----------------------------------------------------------------------------
(* generateRecordingList and generateUltrasoundRecording. *)

Raise(exception) == [exc |-> exception, val |-> NoneVal]
Return(value) == [exc |-> "none", val |-> value]

\* the directory argument: a pathlib.Path or a str
Directory(kind) == [kind |-> kind, s |-> DIRECTORY]

\* directory / name: pathlib.Path has the operator and str has not
truediv(directory, name) ==
    IF directory.kind = "Path"
    THEN Return([kind |-> "Path", s |-> <<directory.s, name>>])
    ELSE Raise("TypeError")

\* Path.glob(pattern): a generator
glob(listing) == [kind |-> "generator", items |-> listing]

\* the order of file names
BasenameOrder == <<"T01", "T02">>

\* sorted(generator): the list of its items in order
sorted_names(generator) ==
    LET Listed(name) == name \in generator.items IN
    [kind |-> "list", items |-> SelectSeq(BasenameOrder, Listed)]

\* obj[0]: a list gives its first item, a generator is not subscriptable
getitem0(obj) ==
    IF obj.kind = "list"
    THEN IF obj.items = <<>> THEN Raise("IndexError") ELSE Return(obj.items[1])
    ELSE Raise("TypeError")

\* filepath.name of DCM/<name>.DCM: the extension stays
name_of(filename) == filename \o ".DCM"

\* "Building Recording object for " + basename + " in " + directory + ".":
\* str + str concatenates, str + Path raises
log_building(directory) ==
    IF directory.kind = "str" THEN Return(NoneVal) ELSE Raise("TypeError")

\* generateUltrasoundRecording(basename, directory); requireVideo is not
\* passed and keeps its default
generateUltrasoundRecording(basename, directory, fs) ==
    IF log_building(directory).exc # "none"
    THEN Raise(log_building(directory).exc)
    ELSE Return(Constructed(basename, FALSE, fs))

\* recording.addMeta(meta) with the list readMetaFromMat returned: the list
\* is not None and meta[key] with a str key raises TypeError, which the
\* handler of KeyError (line 473) lets through
addMeta_of_list(rec, meta) == [rec |-> rec, exc |-> "TypeError", log |-> {}]

\* where rec goes in a list sorted by meta['date']: after the items whose
\* date is not later (sorted is stable)
insert_by_date(list, rec) ==
    LET before == {i \in 1..Len(list) :
                      ~datetime_less(rec.meta["date"], list[i].meta["date"])}
    IN SubSeq(list, 1, Cardinality(before)) \o <<rec>>
       \o SubSeq(list, Cardinality(before) + 1, Len(list))

RECURSIVE sort_by_date(_)
sort_by_date(list) ==
    IF list = <<>> THEN <<>>
    ELSE insert_by_date(sort_by_date(SubSeq(list, 1, Len(list) - 1)),
                        list[Len(list)])

\* line 114: sorted(recordings, key=lambda token: token.meta['date'])
sorted_recordings(recordings) ==
    IF \E i \in 1..Len(recordings) : "date" \notin DOMAIN recordings[i].meta
    THEN Raise("KeyError")
    ELSE Return(sort_by_date(recordings))

\* lines 100-114, recordings being the list of lines 95-98 and meta what
\* readMetaFromMat did
merge_and_sort(recordings, meta) ==
    IF meta.exc # "none" THEN Raise(meta.exc)
    ELSE IF recordings # <<>>
    THEN Raise(addMeta_of_list(recordings[1], meta.val).exc)
    ELSE sorted_recordings(recordings)

\* lines 93-114, dicom_files being the sorted list of line 88
build_recordings(dicom_files, directory, notes, fs) ==
    LET basenames == [i \in 1..Len(dicom_files) |-> name_of(dicom_files[i])]
        built == [i \in 1..Len(basenames) |->
                     generateUltrasoundRecording(basenames[i], directory, fs)]
    IN  \* the first call decides: all are made with the same directory
        IF \E i \in 1..Len(built) : built[i].exc # "none"
        THEN Raise(built[1].exc)
        ELSE merge_and_sort([i \in 1..Len(built) |-> built[i].val],
                            readMetaFromMat(notes))

\* generateRecordingList(directory): listing is the names of the *.DCM
\* files of directory/DCM, notes the officialNotes of the .mat file of
\* directory/NOTES, fs the files of directory
generateRecordingList(directory, listing, notes, fs) ==
    IF truediv(directory, "DCM").exc # "none"
    THEN Raise(truediv(directory, "DCM").exc)
    ELSE IF getitem0(glob({notes})).exc # "none"
    THEN Raise(getitem0(glob({notes})).exc)
    ELSE build_recordings(sorted_names(glob(listing)).items, directory,
                          getitem0(glob({notes})).val, fs)

\* the entry of trial n for the sound file of basename b, recorded on day d
NoteFor(n, b, d) ==
    Element(n, Stamp(d, "Jan", "2020"), <<"C:", "\\", b \o ".dat">>, 6)

\* the notes of a session: none, both trials in either order of time (one
\* with the fields swapped, after a header), and T01 alone
BuildNotes ==
    {<<>>,
     <<NoteFor(1, "T01", "01"), NoteFor(2, "T02", "31")>>,
     <<Element(0, <<>>, <<>>, 2),
       Swapped(NoteFor(1, "T01", "31")), NoteFor(2, "T02", "01")>>,
     <<NoteFor(1, "T01", "01")>>}

BuildReturned(a, r) ==
    /\ lastOp' = "generateRecordingList"
    /\ arg' = a
    /\ outcome' = r.exc
    /\ ret' = r.val
    /\ log' = {}
    /\ didRead' = FALSE
    /\ UNCHANGED <<volVars, recVars, dirVars, guiVars>>

Build ==
    \E kind \in {"Path", "str"} :
        BuildReturned([directory |-> Directory(kind)],
                      generateRecordingList(Directory(kind), dicom_dir,
                                            officialNotes, files))

InitBuild ==
    /\ files \in [Basenames -> SUBSET Extensions]
    /\ dicom_dir \in SUBSET Basenames
    /\ officialNotes \in BuildNotes
    /\ win = NoneVal /\ lock = NoneVal /\ animators = <<>>
    /\ recs = NoRecordings
    /\ ds = RecordingDataset
    /\ us = MatrixData_init(0)
    /\ lastOp = "none" /\ arg = NoneVal /\ outcome = "none"
    /\ ret = NoneVal /\ log = {} /\ didRead = FALSE

NextBuild == Build

SpecBuild == InitBuild /\ [][NextBuild]_vars

Built == lastOp = "generateRecordingList"

\* the records of the session notes for the basename
Matching(basename) ==
    {j \in 1..Len(readMetaFromMat(officialNotes).val) :
        readMetaFromMat(officialNotes).val[j]["dat_file_name"]
            = <<basename \o ".dat">>}

\* the directory is a path, the notes parse and every discovered basename
\* has its record
SessionOk ==
    /\ arg.directory.kind = "Path"
    /\ readMetaFromMat(officialNotes).exc = "none"
    /\ \A b \in dicom_dir : Cardinality(Matching(b)) = 1

\* C12 (as claimed): the recordings the builder returns are in ascending
\* order of the acquisition timestamp the merge stored in each.
C12_SortedByTimestamp ==
    (Built /\ SessionOk) =>
        /\ outcome = "none"
        /\ \A i, j \in 1..Len(ret) :
              i < j => ~datetime_less(ret[j].meta["date_and_time"],
                                      ret[i].meta["date_and_time"])

\* C13 (as claimed): the builder returns exactly one recording per
\* discovered basename; one whose audio or volume file is missing is
\* excluded and still returned, and the run does not abort.
C13_OneRecordingPerBasename ==
    (Built /\ SessionOk) =>
        /\ outcome = "none"
        /\ Len(ret) = Cardinality(dicom_dir)
        /\ \A b \in dicom_dir :
              \E i \in 1..Len(ret) :
                  /\ ret[i].basename = b
                  /\ ~({"wav", "DCM"} \subseteq files[b]) => ret[i].excluded

\* C14 (as claimed): for T01 with T01.DCM and T01.wav and no T01.avi, the
\* returned recording is not excluded and its video_exists is false (the
\* builder does not declare video mandatory).
C14_OptionalVideo ==
    (Built /\ SessionOk /\ "T01" \in dicom_dir
        /\ files["T01"] = {"DCM", "wav"}) =>
        /\ outcome = "none"
        /\ \E i \in 1..Len(ret) :
              /\ ret[i].basename = "T01"
              /\ ~ret[i].excluded
              /\ ret[i].meta["video_exists"] = FALSE

\* C15 (as claimed): every returned recording holds the four values of the
\* one notes record that matches its basename; when some basename has no
\* matching record the run ends in a fatal error.
C15_MetadataMatched ==
    (Built /\ arg.directory.kind = "Path"
        /\ readMetaFromMat(officialNotes).exc = "none") =>
        IF \A b \in dicom_dir : Cardinality(Matching(b)) = 1
        THEN /\ outcome = "none"
             /\ \A i \in 1..Len(ret) :
                   \E j \in Matching(ret[i].basename) :
                       \A k \in requiredMetaKeys :
                           /\ k \in DOMAIN ret[i].meta
                           /\ ret[i].meta[k] =
                                 readMetaFromMat(officialNotes).val[j][k]
        ELSE outcome = "SystemExit"

----------------------------------------------------------------------------
(* The data setter in every state of the buffer. *)

DecodePaths == {"__init__(preload)", "_getData", "_read_3D_ultra", "data"}

\* C29: assigning a value other than None to data raises and leaves the
\* buffer as it was, also when the buffer is absent; an assignment changes
\* the buffer only when it assigns None; an absent buffer becomes populated
\* only by the constructor's preload, _getData, _read_3D_ultra or the getter.
C29_OnlyNoneAssignable ==
    [][/\ (lastOp' = "data = value" /\ arg' # NoneVal) =>
             (outcome' = "NotImplementedError" /\ us'.data = us.data)
       /\ (lastOp' = "data = value" /\ us'.data # us.data) =>
             (arg' = NoneVal /\ us'.data = NoneVal)
       /\ (us.data = NoneVal /\ us'.data # NoneVal) =>
             lastOp' \in DecodePaths]_vars

\* an array was assigned while the buffer was absent, and was refused
C29_Witness ==
    /\ lastOp = "data = value" /\ arg = OtherArray
    /\ outcome = "NotImplementedError"
    /\ us.phase = "ready"
    /\ us.data = NoneVal

----------------------------------------------------------------------------
(* The decoded tensor as a function of the buffer. *)

\* C25 (as claimed): for a buffer of (frame_size + padding_per_frame) *
\* frame_count bytes, tensor[f][i][j][k] is
\* buffer[((i * dim2 + j) * dim3 + k) * frame_count + f] for every frame f
\* and every i < dim1, j < dim2, k < dim3.
C25_TensorOfBuffer ==
    (Decoded /\ WellFormed(ds)) =>
        /\ outcome = "none"
        /\ us.data # NoneVal
        /\ \A f \in 0..(frame_count - 1), i \in 0..(ds.dims[1] - 1),
              j \in 0..(ds.dims[2] - 1), k \in 0..(ds.dims[3] - 1) :
              /\ <<f, i, j, k>> \in DOMAIN us.data.at
              /\ us.data.at[<<f, i, j, k>>] =
                    ds.pixels[((i * ds.dims[2] + j) * ds.dims[3] + k)
                                  * frame_count + f + 1]

----------------------------------------------------------------------------
(* Files of a recording that is not excluded. *)

\* the file path is in the metadata only with its flag true and the file
\* on disk
StoredOnlyIfFound(rec, fs, pathKey, flagKey, ext) ==
    pathKey \in DOMAIN rec.meta =>
        /\ rec.meta[flagKey] = TRUE
        /\ ext \in fs[rec.basename]
        /\ rec.meta[pathKey] = join(DIRECTORY, rec.basename, ext)

FilesVerified(rec, fs) ==
    /\ ~rec.excluded =>
          /\ {"wav", "DCM"} \subseteq fs[rec.basename]
          /\ rec.requireVideo => "avi" \in fs[rec.basename]
    /\ StoredOnlyIfFound(rec, fs, "ult_wav_file", "ult_wav_exists", "wav")
    /\ StoredOnlyIfFound(rec, fs, "ult_file", "ult_exists", "DCM")
    /\ StoredOnlyIfFound(rec, fs, "video_file", "video_exists", "avi")

\* C22: for every constructed recording, in every later state, a recording
\* that is not excluded had its audio and volume files found on disk (and
\* its video when video is required), and each file path in the metadata
\* is there only with its exists flag true.
C22_NonExcludedFilesVerified ==
    \A b \in Basenames :
        IF recs[b] = NoneVal THEN TRUE
        ELSE recs[b].pc = "done" => FilesVerified(recs[b], files)

\* a recording that requires video and has all three files, not excluded
\* after a merge, an attach and an exclusion list, next to one that lacks
\* its audio
C22_Witness ==
    /\ recs["T01"] # NoneVal /\ recs["T02"] # NoneVal
    /\ recs["T01"].pc = "done" /\ recs["T02"].pc = "done"
    /\ recs["T01"].requireVideo /\ ~recs["T01"].excluded
    /\ "video_file" \in DOMAIN recs["T01"].meta
    /\ "prompt" \in DOMAIN recs["T01"].meta
    /\ "ThreeD_Ultrasound" \in DOMAIN recs["T01"].modalities
    /\ recs["T02"].excluded
    /\ "ult_wav_file" \notin DOMAIN recs["T02"].meta
    /\ "ult_file" \in DOMAIN recs["T02"].meta
    /\ lastOp = "set_exclusions_from_file"

----------------------------------------------------------------------------
(* Pd3dQtAnnotator (satkit/qt_3d_annotator.py).                            *)
(*                                                                         *)
(* A dict is an object: win.heap maps each reference to the dict it names, *)
(* and recording.annotations holds a reference (or None).  pdOnset, a      *)
(* float, is -1 or the time of the picked sample, counted in samples.      *)

MaxRecordings == 3    \* the annotator is given 1..MaxRecordings recordings
MaxShownFrames == 3   \* whose volumes hold 2..MaxShownFrames frames

Ref(n) == [id |-> n]

\* a reference no dict of the heap has yet
new_ref(heap) == Ref(Cardinality(DOMAIN heap) + 1)

\* bool(recording.annotations): None and the empty dict are false
truthy_dict(heap, ref) ==
    IF ref = NoneVal THEN FALSE ELSE DOMAIN heap[ref] # {}

default_categories == <<"Stable", "Hesitation", "Chaos", "No data", "Not set">>
default_tongue_positions == <<"High", "Low", "Other / Not visible">>

\* the default_annotations property (categories is None in every call):
\* a new dict each time it is read
default_annotations ==
    ("pdCategory" :> default_categories[Len(default_categories)])
    @@ ("tonguePosition" :> default_tongue_positions[Len(default_tongue_positions)])
    @@ ("pdOnset" :> -1)
    @@ ("pdOnsetIndex" :> -1)

\* _add_annotations, the loop from recording i on
RECURSIVE add_annotations_from(_, _)
add_annotations_from(w, i) ==
    IF i > Len(w.recordings) THEN w
    ELSE IF truthy_dict(w.heap, w.recordings[i].annotations)
    THEN add_annotations_from(
             [w EXCEPT !.heap[w.recordings[i].annotations] =
                           Update(@, default_annotations)], i + 1)
    ELSE add_annotations_from(
             [w EXCEPT !.heap = Put(@, new_ref(w.heap), default_annotations),
                       !.recordings[i].annotations = new_ref(w.heap)], i + 1)

add_annotations_replace(w) ==
    [w EXCEPT !.heap = [r \in DOMAIN @ |-> default_annotations]]

add_annotations(w) == add_annotations_from(w, 1)

\* the hard-coded column of the frame that is displayed
ULTRA_COLUMN == 32

\* data[ind, :, :, col] of a 4-D array: a negative ind counts from the end,
\* IndexError out of bounds
getitem_frame(data, ind, col) ==
    IF \/ Len(data.shape) # 4
       \/ ind >= data.shape[1] \/ ind < -data.shape[1]
       \/ col >= data.shape[4]
    THEN [exc |-> "IndexError", val |-> NoneVal]
    ELSE [exc |-> "none",
          val |-> [shape |-> <<data.shape[2], data.shape[3]>>,
                   at |-> [idx \in Indices(<<data.shape[2], data.shape[3]>>) |->
                             data.at[<<IF ind < 0 THEN ind + data.shape[1] ELSE ind,
                                       idx[1], idx[2], col>>]]]]

\* np.flip(arr, 0)
flip0(arr) ==
    [shape |-> arr.shape,
     at |-> [idx \in Indices(arr.shape) |->
               arr.at[<<arr.shape[1] - 1 - idx[1]>> \o Tail(idx)]]]

\* arr.astype(np.int8) of a uint8 array
astype_int8(arr) ==
    [shape |-> arr.shape,
     at |-> [idx \in Indices(arr.shape) |->
               IF arr.at[idx] >= 128 THEN arr.at[idx] - 256 ELSE arr.at[idx]]]

\* lines 321-323: what imshow is given for the slice
rendered(slice) == astype_int8(flip0(transpose(slice)))

\* the .DCM file of a recording whose volume holds n frames, wide enough for
\* column ULTRA_COLUMN
AnnotatorFile(n) ==
    Dataset(3, ECHO_3D, n, <<ULTRA_COLUMN + 1, 1, 1>>, 1, (ULTRA_COLUMN + 1) * n)

\* self.current, lines 182-185
has_current(w) == w.index >= -Len(w.recordings) /\ w.index < Len(w.recordings)

current(w) ==
    IF w.index < 0 THEN w.index + Len(w.recordings) + 1 ELSE w.index + 1

current_annotations(w) == w.heap[w.recordings[current(w)].annotations]

\* lines 316-324 once the data getter has run: g is what it did, ind the
\* frame asked for
imshow_frame(w, g, ind) ==
    IF g.exc # "none"
    THEN [w |-> [w EXCEPT !.recordings[current(w)].ultrasound = g.m],
          exc |-> g.exc]
    ELSE IF getitem_frame(g.val, ind, ULTRA_COLUMN).exc # "none"
    THEN [w |-> [w EXCEPT !.recordings[current(w)].ultrasound = g.m],
          exc |-> getitem_frame(g.val, ind, ULTRA_COLUMN).exc]
    ELSE [w |-> [w EXCEPT !.recordings[current(w)].ultrasound = g.m,
                          !.image = rendered(getitem_frame(g.val, ind, ULTRA_COLUMN).val)],
          exc |-> "none"]

\* draw_ultra_frame, lines 310-324
draw_ultra_frame(w) ==
    IF ~has_current(w) THEN [w |-> w, exc |-> "IndexError"]
    ELSE imshow_frame(
             w,
             data_getter(w.recordings[current(w)].ultrasound,
                         AnnotatorFile(w.recordings[current(w)].frames)),
             IF current_annotations(w)["pdOnsetIndex"] # 0
             THEN current_annotations(w)["pdOnsetIndex"]
             ELSE 1)

\* draw_plots, lines 277-308: the title, the curves and the onset line are
\* drawn from the current recording, then the frame
draw_plots(w) ==
    IF ~has_current(w) THEN [w |-> w, exc |-> "IndexError"]
    ELSE draw_ultra_frame(w)

\* second half of update (lines 226-228), r being what draw_plots did
redraw_frame(r) == IF r.exc # "none" THEN r ELSE draw_ultra_frame(r.w)

\* update, lines 219-228
update(w) == redraw_frame(draw_plots(w))

\* update_ui, lines 230-251: reads the current recording's annotations and
\* checks the matching radio buttons (r is what update did)
update_ui(r) ==
    IF r.exc # "none" THEN r
    ELSE IF ~has_current(r.w) THEN [w |-> r.w, exc |-> "IndexError"]
    ELSE r

\* self.current.modalities['ThreeD_Ultrasound'].data = None
\* (the setter accepts None in every state)
release_current(w) ==
    IF ~has_current(w) THEN [w |-> w, exc |-> "IndexError"]
    ELSE [w |-> [w EXCEPT !.recordings[current(w)].ultrasound =
                     data_setter(@, NoneVal).m],
          exc |-> "none"]

\* Pd3dQtAnnotator.__init__, lines 104-180
Pd3dQtAnnotator_init(recordings, heap) ==
    draw_plots(add_annotations(
        [index |-> 0, max_index |-> Len(recordings),
         recordings |-> recordings, heap |-> heap, image |-> NoneVal]))

\* next, lines 345-355
next_keeping_volume(w) ==
    IF w.index < w.max_index - 1
    THEN update_ui(update([w EXCEPT !.index = @ + 1]))
    ELSE [w |-> w, exc |-> "none"]

next(w) ==
    IF w.index < w.max_index - 1
    THEN update_ui(update([release_current(w).w EXCEPT !.index = @ + 1]))
    ELSE [w |-> w, exc |-> "none"]

\* prev, lines 357-367
prev(w) ==
    IF w.index > 0
    THEN IF release_current(w).exc # "none" THEN release_current(w)
         ELSE update_ui(update([release_current(w).w EXCEPT !.index = @ - 1]))
    ELSE [w |-> w, exc |-> "none"]

\* go_to_recording, lines 369-376; text is the integer in goLineEdit
go_to_recording(w, text) ==
    IF release_current(w).exc # "none" THEN release_current(w)
    ELSE update_ui(update([release_current(w).w EXCEPT !.index = text - 1]))

\* Recording.data: the Recording of the data model has a basename, a path,
\* metadata, an exclusion flag, modalities and annotations, and no data
Recording_data(rec) == GetAttr(rec, "data")

\* next_frame, lines 326-334
next_frame(w) ==
    IF ~has_current(w) THEN [w |-> w, exc |-> "IndexError"]
    ELSE IF current_annotations(w)["pdOnsetIndex"] > -1
    THEN IF Recording_data(w.recordings[current(w)]).exc # "none"
         THEN [w |-> w, exc |-> Recording_data(w.recordings[current(w)]).exc]
         ELSE IF current_annotations(w)["pdOnsetIndex"] <
                     Recording_data(w.recordings[current(w)]).val.size[1] - 1
         THEN update_ui(update(
                  [w EXCEPT !.heap[w.recordings[current(w)].annotations]["pdOnsetIndex"] = @ + 1]))
         ELSE [w |-> w, exc |-> "none"]
    ELSE [w |-> w, exc |-> "none"]

\* previous_frame, lines 336-343
previous_frame(w) ==
    IF ~has_current(w) THEN [w |-> w, exc |-> "IndexError"]
    ELSE IF current_annotations(w)["pdOnsetIndex"] > 0
    THEN update_ui(update(
             [w EXCEPT !.heap[w.recordings[current(w)].annotations]["pdOnsetIndex"] = @ - 1]))
    ELSE [w |-> w, exc |-> "none"]

\* pd_category_cb, lines 489-496
pd_category_cb(w, radio_button) ==
    IF ~radio_button.isChecked THEN [w |-> w, exc |-> "none"]
    ELSE IF ~has_current(w) THEN [w |-> w, exc |-> "IndexError"]
    ELSE [w |-> [w EXCEPT !.heap[w.recordings[current(w)].annotations]["pdCategory"] =
                              radio_button.text],
          exc |-> "none"]

\* tongue_position_cb, lines 498-505
tongue_position_cb(w, radio_button) ==
    IF ~radio_button.isChecked THEN [w |-> w, exc |-> "none"]
    ELSE IF ~has_current(w) THEN [w |-> w, exc |-> "IndexError"]
    ELSE [w |-> [w EXCEPT !.heap[w.recordings[current(w)].annotations]["tonguePosition"] =
                              radio_button.text],
          exc |-> "none"]

\* onpick, lines 507-528: the picker hands over the sample nearest to the
\* click (event.ind, whose time is event.pickx); the first sample at or after
\* that time is the sample itself
onpick(w, event) ==
    IF ~event.in_ax1 THEN update(w)
    ELSE IF ~has_current(w) THEN [w |-> w, exc |-> "IndexError"]
    ELSE update([w EXCEPT
             !.heap[w.recordings[current(w)].annotations] =
                 Put(Put(@, "pdOnset", event.ind), "pdOnsetIndex", event.ind)])

----------------------------------------------------------------------------
(* The annotator session: the window is constructed over a list of         *)
(* recordings, then the user's actions arrive one at a time.  An exception *)
(* raised in a handler ends that handler where it is; what it had assigned *)
(* by then stays.                                                          *)

\* annotations a recording can arrive with: none yet, those of an earlier
\* session, or a consumer's own key only
AnnotationInputs ==
    {EmptyDict,
     ("pdCategory" :> "Stable") @@ ("tonguePosition" :> "High")
        @@ ("pdOnset" :> 1) @@ ("pdOnsetIndex" :> 1) @@ ("comment" :> "checked"),
     ("comment" :> "checked")}

\* the volume modality of a recording: constructed without preload, and
\* populated or not
Unloaded == ThreeD_Ultrasound_init(MatrixData_init(0), RecordingDataset, FALSE,
                                   join(DIRECTORY, "T01", "DCM")).m

\* per frame count, the modality once _read_3D_ultra has decoded the file
LoadedVolumes ==
    [n \in 2..MaxShownFrames |-> read_3D_ultra(Unloaded, AnnotatorFile(n)).m]

Loaded(n) == LoadedVolumes[n]

AnnotatorSession(n, anns, loaded) ==
    [phase |-> "args", index |-> 0, max_index |-> 0, image |-> NoneVal,
     heap |-> [r \in {Ref(i) : i \in DOMAIN anns} |-> anns[r.id]],
     recordings |-> [i \in DOMAIN anns |->
                       [annotations |-> Ref(i),
                        ultrasound |-> IF loaded[i] THEN Loaded(n) ELSE Unloaded,
                        frames |-> n]]]

AnnotatorInputs ==
    UNION {{AnnotatorSession(n, anns, loaded) :
               n \in 2..MaxShownFrames,
               anns \in [1..len -> AnnotationInputs],
               loaded \in [1..len -> BOOLEAN]} : len \in 1..MaxRecordings}

WinReturned(op, a, phase, r) ==
    /\ win' = [phase |-> phase] @@ r.w
    /\ lastOp' = op
    /\ arg' = a
    /\ outcome' = r.exc
    /\ ret' = NoneVal
    /\ log' = {}
    /\ didRead' = FALSE
    /\ UNCHANGED <<volVars, recVars, dirVars, lock, animators>>

NewAnnotatorReturned(r) ==
    WinReturned("Pd3dQtAnnotator", NoneVal,
                IF r.exc = "none" THEN "shown" ELSE "failed", r)

NewAnnotator ==
    /\ win.phase = "args"
    /\ NewAnnotatorReturned(Pd3dQtAnnotator_init(win.recordings, win.heap))

AnnotatorNext ==
    /\ win.phase = "shown"
    /\ WinReturned("next", NoneVal, "shown", next(win))

AnnotatorPrev ==
    /\ win.phase = "shown"
    /\ WinReturned("prev", NoneVal, "shown", prev(win))

GoToRecording ==
    /\ win.phase = "shown"
    /\ \E text \in 1..(win.max_index + 1) :
          WinReturned("go_to_recording", [text |-> text], "shown",
                      go_to_recording(win, text))

NextFrame ==
    /\ win.phase = "shown"
    /\ WinReturned("next_frame", NoneVal, "shown", next_frame(win))

PreviousFrame ==
    /\ win.phase = "shown"
    /\ WinReturned("previous_frame", NoneVal, "shown", previous_frame(win))

PdCategory ==
    /\ win.phase = "shown"
    /\ \E text \in {default_categories[1]}, checked \in BOOLEAN :
          WinReturned("pd_category_cb", NoneVal, "shown",
                      pd_category_cb(win, [text |-> text, isChecked |-> checked]))

TonguePosition ==
    /\ win.phase = "shown"
    /\ \E text \in {default_tongue_positions[1]}, checked \in BOOLEAN :
          WinReturned("tongue_position_cb", NoneVal, "shown",
                      tongue_position_cb(win, [text |-> text, isChecked |-> checked]))

OnPick ==
    /\ win.phase = "shown"
    /\ has_current(win)
    /\ \E in_ax1 \in BOOLEAN, ind \in 0..(win.recordings[current(win)].frames - 1) :
          WinReturned("onpick", [in_ax1 |-> in_ax1, ind |-> ind], "shown",
                      onpick(win, [in_ax1 |-> in_ax1, ind |-> ind]))

NoGui ==
    /\ lock = NoneVal /\ animators = <<>>
    /\ dicom_dir = {} /\ officialNotes = <<>>
    /\ files = NoFiles /\ recs = NoRecordings
    /\ ds = RecordingDataset
    /\ us = MatrixData_init(0)
    /\ lastOp = "none" /\ arg = NoneVal /\ outcome = "none"
    /\ ret = NoneVal /\ log = {} /\ didRead = FALSE

\* constructing the window
InitNewAnnotator == win \in AnnotatorInputs /\ NoGui

NextNewAnnotator == NewAnnotator

SpecNewAnnotator == InitNewAnnotator /\ [][NextNewAnnotator]_vars

\* the windows that were constructed (the constructor returned), over
\* recordings without annotations
Shown ==
    {[phase |-> "shown"] @@ Pd3dQtAnnotator_init(s.recordings, s.heap).w :
        s \in {t \in AnnotatorInputs :
                 /\ \A r \in DOMAIN t.heap : t.heap[r] = EmptyDict
                 /\ Pd3dQtAnnotator_init(t.recordings, t.heap).exc = "none"}}

\* moving between the recordings
InitAnnotator == win \in Shown /\ NoGui

NextAnnotator ==
    \/ AnnotatorNext
    \/ AnnotatorPrev
    \/ GoToRecording

SpecAnnotator == InitAnnotator /\ [][NextAnnotator]_vars

\* annotating the recording that is shown
InitAnnotate == win \in Shown /\ NoGui

NextAnnotate ==
    \/ NextFrame
    \/ PreviousFrame
    \/ PdCategory
    \/ TonguePosition
    \/ OnPick

SpecAnnotate == InitAnnotate /\ [][NextAnnotate]_vars

----------------------------------------------------------------------------
(* Construction of the annotator. *)

DefaultKeys == DOMAIN default_annotations

\* the annotations of recording i of window w
AnnotationsOf(w, i) == w.heap[w.recordings[i].annotations]

\* C30: constructing the annotator sets the four default annotation keys of
\* every recording to their default values, leaves every other key of a
\* recording's annotations as it was, and gives no two recordings the same
\* annotations mapping.
C30_DefaultAnnotationsAdded ==
    [][lastOp' = "Pd3dQtAnnotator" =>
         /\ Len(win'.recordings) = Len(win.recordings)
         /\ \A i \in 1..Len(win.recordings) :
               /\ \A k \in DefaultKeys :
                     AnnotationsOf(win', i)[k] = default_annotations[k]
               /\ DOMAIN AnnotationsOf(win', i) =
                     DOMAIN AnnotationsOf(win, i) \cup DefaultKeys
               /\ \A k \in DOMAIN AnnotationsOf(win, i) \ DefaultKeys :
                     AnnotationsOf(win', i)[k] = AnnotationsOf(win, i)[k]
         /\ \A i, j \in 1..Len(win.recordings) :
               i # j => win'.recordings[i].annotations #
                            win'.recordings[j].annotations]_vars

\* the window was constructed over a recording that had no annotations and
\* one that carried a key of its own, which it still has next to the
\* defaults
C30_Witness ==
    /\ lastOp = "Pd3dQtAnnotator"
    /\ Len(win.recordings) >= 2
    /\ AnnotationsOf(win, 1) = default_annotations
    /\ "comment" \in DOMAIN AnnotationsOf(win, 2)
    /\ AnnotationsOf(win, 2)["comment"] = "checked"
    /\ AnnotationsOf(win, 2)["pdOnsetIndex"] = -1

----------------------------------------------------------------------------
(* Moving between the recordings. *)

\* C27: the index of the recording shown stays within 0 .. max_index - 1
\* over next, prev and go_to_recording with any integer the validator of the
\* go field accepts, so that the current recording exists.
C27_IndexInRange ==
    win.phase = "shown" =>
        /\ 0 <= win.index /\ win.index <= win.max_index - 1
        /\ has_current(win)

Resident(w, i) == w.recordings[i].ultrasound.data # NoneVal

\* no recording but the current one holds its volume
OthersAbsent(w) ==
    \A i \in 1..Len(w.recordings) :
        Resident(w, i) => (has_current(w) /\ i = current(w))

\* C21: next, prev and go_to_recording keep every volume but the current
\* recording's absent (so that, from a start without volumes, at most one
\* is resident), and the volume of the recording that is left is released
\* when the index changes.
C21_OneVolumeResident ==
    [][/\ OthersAbsent(win) => OthersAbsent(win')
       /\ (win'.index # win.index /\ has_current(win)) =>
              ~Resident(win', current(win))]_vars

\* next has left the first recording, whose volume was resident, and
\* released it
C21_Witness ==
    /\ lastOp = "next"
    /\ win.index = 1
    /\ ~Resident(win, 1)
    /\ OthersAbsent(win)

----------------------------------------------------------------------------
(* Annotating the recording that is shown. *)

\* the frame the annotations of the current recording ask for
OnsetFrame(w) ==
    IF current_annotations(w)["pdOnsetIndex"] = -1
    THEN 1
    ELSE current_annotations(w)["pdOnsetIndex"]

\* what imshow is given when frame f of the current recording is drawn
FrameImage(w, f) ==
    rendered(getitem_frame(w.recordings[current(w)].ultrasound.data,
                           f, ULTRA_COLUMN).val)

\* onpick, which always redraws the frame, has run and returned
Redrawn == lastOp = "onpick" /\ outcome = "none"

\* C26: once draw_ultra_frame has drawn, the frame on display is the frame
\* at the current recording's pdOnsetIndex (frame 0 for 0, frame n for
\* n > 0), and the default frame 1 when no onset has been picked
\* (pdOnsetIndex = -1).
C26_FrameAtOnsetIndex ==
    (Redrawn /\ has_current(win) /\ Resident(win, current(win))) =>
        win.image = FrameImage(win, OnsetFrame(win))

----------------------------------------------------------------------------
(* BoundaryAnimator (satkit/gui/boundary_animation.py).                    *)
(*                                                                         *)
(* Times are integers.  A line is its xdata (both ends of a vertical line  *)
(* have the same x) and its animated flag; an axes is named by a string;   *)
(* a mouse event is [inaxes, xdata], with inaxes NoAxes outside the axes.  *)
(* The field crossed of an animator is bookkeeping of the model: whether a *)
(* motion of the drag under way was refused as not legal.                  *)

MaxAnimators == 2    \* 1..MaxAnimators boundaries are on the canvas
MaxTime == 3         \* pointer positions and boundaries are in 0..MaxTime
MaxTimeOffset == 1   \* time_offset is in 0..MaxTimeOffset

\* the axes the boundaries are drawn in
Axes == <<"pd", "wav">>

\* event.inaxes of an event outside every axes (None)
NoAxes == "None"

\* how far from a line a press still hits it (Line2D.contains, line 99)
PICK_RADIUS == 1

AnimatableBoundary(axes, x) ==
    [axes |-> axes, line |-> [xdata |-> x, animated |-> FALSE],
     prev_text |-> NoneVal, next_text |-> NoneVal]

\* BoundaryAnimator.__init__, lines 65-73
BoundaryAnimator_init(boundaries, segment, time_offset) ==
    [boundaries |-> boundaries, segment |-> segment,
     time_offset |-> time_offset, press |-> NoneVal, backgrounds |-> <<>>,
     crossed |-> FALSE]

\* SatInterval.is_legal_value of the segment of animator id: a boundary
\* stays within the tier and strictly between the boundaries next to it
is_legal_value(all, id, value) ==
    /\ value >= all[id].time_offset
    /\ value <= MaxTime + all[id].time_offset
    /\ id > 1 => all[id - 1].segment.begin < value
    /\ id < Len(all) => value < all[id + 1].segment.begin

\* lines 90-95 and 140-145
is_inaxes(self, event) ==
    \E i \in 1..Len(self.boundaries) : event.inaxes = self.boundaries[i].axes

\* boundary.line.contains(event)[0]
contains(boundary, event) ==
    /\ event.inaxes = boundary.axes
    /\ event.xdata - boundary.line.xdata <= PICK_RADIUS
    /\ boundary.line.xdata - event.xdata <= PICK_RADIUS

\* lines 97-102: the boundaries whose line the event hits, the first of
\* which gives the press
hit(self, event) ==
    {i \in 1..Len(self.boundaries) : contains(self.boundaries[i], event)}

Min(S) == CHOOSE x \in S : \A y \in S : x <= y

\* the press and the saved backgrounds, lines 101-133
pressed(all, id, event) ==
    [all EXCEPT
       ![id].press = [x0 |-> all[id].boundaries[Min(hit(all[id], event))].line.xdata,
                      xpress |-> event.xdata],
       ![id].crossed = FALSE,
       ![id].boundaries =
           [i \in DOMAIN @ |-> [@[i] EXCEPT !.line.animated = TRUE]],
       ![id].backgrounds =
           @ \o [i \in DOMAIN all[id].boundaries |->
                   [bbox |-> all[id].boundaries[i].axes]]]

\* on_press, lines 85-133, of animator id
on_press_ignoring_lock(all, lk, id, event) ==
    IF ~is_inaxes(all[id], event) \/ hit(all[id], event) = {}
    THEN [all |-> all, lock |-> lk]
    ELSE [all |-> pressed(all, id, event), lock |-> Ref(id)]

on_press(all, lk, id, event) ==
    IF lk # NoneVal THEN [all |-> all, lock |-> lk]
    ELSE IF ~is_inaxes(all[id], event) \/ hit(all[id], event) = {}
    THEN [all |-> all, lock |-> lk]
    ELSE [all |-> pressed(all, id, event), lock |-> Ref(id)]

\* on_motion, lines 135-163
on_motion(all, lk, id, event) ==
    IF lk # Ref(id) THEN [all |-> all, lock |-> lk]
    ELSE IF ~is_inaxes(all[id], event) THEN [all |-> all, lock |-> lk]
    ELSE IF is_legal_value(all, id, all[id].press.x0 + (event.xdata - all[id].press.xpress)
                                        + all[id].time_offset)
    THEN [all |-> [all EXCEPT
                     ![id].boundaries =
                         [i \in DOMAIN @ |->
                            [@[i] EXCEPT !.line.xdata =
                                all[id].press.x0 + (event.xdata - all[id].press.xpress)]],
                     ![id].segment.begin =
                         all[id].press.x0 + (event.xdata - all[id].press.xpress)
                             + all[id].time_offset],
          lock |-> lk]
    ELSE [all |-> [all EXCEPT ![id].crossed = TRUE], lock |-> lk]

\* on_release, lines 165-184
on_release_keeping_backgrounds(all, lk, id, event) ==
    IF lk # Ref(id) THEN [all |-> all, lock |-> lk]
    ELSE [all |-> [all EXCEPT
                     ![id].press = NoneVal,
                     ![id].crossed = FALSE,
                     ![id].boundaries =
                         [i \in DOMAIN @ |-> [@[i] EXCEPT !.line.animated = FALSE]]],
          lock |-> NoneVal]

on_release(all, lk, id, event) ==
    IF lk # Ref(id) THEN [all |-> all, lock |-> lk]
    ELSE [all |-> [all EXCEPT
                     ![id].press = NoneVal,
                     ![id].crossed = FALSE,
                     ![id].boundaries =
                         [i \in DOMAIN @ |-> [@[i] EXCEPT !.line.animated = FALSE]],
                     ![id].backgrounds = <<>>],
          lock |-> NoneVal]

----------------------------------------------------------------------------
(* The canvas: the animators of a tier's boundaries are constructed and    *)
(* connected, then each mouse event is delivered to the handler of every   *)
(* animator, one delivery at a time.                                       *)

\* the mouse events; outside the axes xdata is None and no handler reads
\* it, 0 stands for it
Events ==
    {[inaxes |-> NoAxes, xdata |-> 0]}
    \cup {[inaxes |-> Axes[i], xdata |-> x] : i \in DOMAIN Axes, x \in 0..MaxTime}

\* the animators of the boundaries at the times begins[1] < begins[2] < ..
Animators(begins, time_offset) ==
    [id \in DOMAIN begins |->
        BoundaryAnimator_init(
            [i \in DOMAIN Axes |-> AnimatableBoundary(Axes[i], begins[id])],
            [begin |-> begins[id] + time_offset],
            time_offset)]

AnimatorInputs ==
    UNION {{Animators(begins, time_offset) :
               begins \in {b \in [1..n -> 0..MaxTime] :
                              \A i \in 1..(n - 1) : b[i] < b[i + 1]},
               time_offset \in 0..MaxTimeOffset} : n \in 1..MaxAnimators}

Delivered(op, id, r) ==
    /\ animators' = r.all
    /\ lock' = r.lock
    /\ lastOp' = op
    /\ arg' = [animator |-> id]
    /\ outcome' = "none"
    /\ ret' = NoneVal
    /\ log' = {}
    /\ didRead' = FALSE
    /\ UNCHANGED <<volVars, recVars, dirVars, win>>

OnPress ==
    \E id \in DOMAIN animators, event \in Events :
        Delivered("on_press", id, on_press(animators, lock, id, event))

OnMotion ==
    \E id \in DOMAIN animators, event \in Events :
        Delivered("on_motion", id, on_motion(animators, lock, id, event))

OnRelease ==
    \E id \in DOMAIN animators, event \in Events :
        Delivered("on_release", id, on_release(animators, lock, id, event))

InitBoundary ==
    /\ animators \in AnimatorInputs
    /\ lock = NoneVal
    /\ win = NoneVal
    /\ dicom_dir = {} /\ officialNotes = <<>>
    /\ files = NoFiles /\ recs = NoRecordings
    /\ ds = RecordingDataset
    /\ us = MatrixData_init(0)
    /\ lastOp = "none" /\ arg = NoneVal /\ outcome = "none"
    /\ ret = NoneVal /\ log = {} /\ didRead = FALSE

NextBoundary ==
    \/ OnPress
    \/ OnMotion
    \/ OnRelease

SpecBoundary == InitBoundary /\ [][NextBoundary]_vars

----------------------------------------------------------------------------
(* Dragging the boundaries. *)

Holds(all, lk, a) == lk = Ref(a)

Pressed(all) == {a \in DOMAIN all : all[a].press # NoneVal}

\* C23: only one boundary is dragged at a time: at most one animator is in
\* a drag, a press delivered while the lock is held changes nothing, and a
\* motion or a release changes nothing in an animator that does not hold the
\* lock (nothing at all when it is delivered to such an animator).
C23_OneDragAtATime ==
    [][/\ Cardinality(Pressed(animators')) <= 1
       /\ (lastOp' = "on_press" /\ lock # NoneVal) =>
              (animators' = animators /\ lock' = lock)
       /\ lastOp' \in {"on_motion", "on_release"} =>
              /\ \A a \in DOMAIN animators :
                    ~Holds(animators, lock, a) => animators'[a] = animators[a]
              /\ ~Holds(animators, lock, arg'.animator) =>
                    (animators' = animators /\ lock' = lock)]_vars

\* a press was delivered to the second animator while the first one was in
\* a drag, and was ignored
C23_Witness ==
    /\ lastOp = "on_press"
    /\ arg.animator = 2
    /\ lock = Ref(1)
    /\ Pressed(animators) = {1}

\* the press, the lock and the saved backgrounds of every animator agree
DragState(all, lk) ==
    \A a \in DOMAIN all :
        /\ all[a].press # NoneVal <=> Holds(all, lk, a)
        /\ ~Holds(all, lk, a) => all[a].backgrounds = <<>>
        /\ Holds(all, lk, a) => Len(all[a].backgrounds) = Len(all[a].boundaries)

\* C28: an animator's press is set exactly while it holds the lock, its
\* backgrounds are empty while it does not and hold one saved background
\* per boundary while it does; a release handled by the holder leaves the
\* lock and the press None and the backgrounds empty.
C28_PressLockBackgrounds ==
    [][/\ DragState(animators', lock')
       /\ (lastOp' = "on_release" /\ Holds(animators, lock, arg'.animator)) =>
              /\ lock' = NoneVal
              /\ animators'[arg'.animator].press = NoneVal
              /\ animators'[arg'.animator].backgrounds = <<>>]_vars

\* the second animator holds the lock after its line was pressed, with one
\* background per boundary, and has been moved since
C28_Witness ==
    /\ lastOp = "on_motion"
    /\ Len(animators) = 2
    /\ lock = Ref(2)
    /\ animators[2].press # NoneVal
    /\ animators[2].boundaries[1].line.xdata # animators[2].press.x0
    /\ Len(animators[2].backgrounds) = Len(Axes)
    /\ animators[1].press = NoneVal /\ animators[1].backgrounds = <<>>

\* C24: when the holder handles the release of a drag in which the pointer
\* moved to a position that is not legal, the lines and segment.begin are
\* back where they were at the press; otherwise the lines stay where they
\* are and segment.begin is that position plus time_offset.
C24_CrossingRestoresOnRelease ==
    [][(lastOp' = "on_release" /\ Holds(animators, lock, arg'.animator)) =>
         \A i \in DOMAIN animators[arg'.animator].boundaries :
            IF animators[arg'.animator].crossed
            THEN /\ animators'[arg'.animator].boundaries[i].line.xdata =
                        animators[arg'.animator].press.x0
                 /\ animators'[arg'.animator].segment.begin =
                        animators[arg'.animator].press.x0
                            + animators[arg'.animator].time_offset
            ELSE /\ animators'[arg'.animator].boundaries[i].line.xdata =
                        animators[arg'.animator].boundaries[i].line.xdata
                 /\ animators'[arg'.animator].segment.begin =
                        animators'[arg'.animator].boundaries[i].line.xdata
                            + animators[arg'.animator].time_offset]_vars

====
